---- MODULE Spec2Model ----
(***************************************************************************)
(* PolicySim-AI: the composite simulation pipeline of src/models.py        *)
(* (ModeShareModel, EmissionsModel, CostBenefitModel, EquityModel,         *)
(* EfficiencyModel, PolicySimulator) and the policy catalog's adjustment   *)
(* maps of src/policies.py.                                                *)
(*                                                                         *)
(* Numbers.  The program computes in binary floating point; the model      *)
(* computes the same formulas in exact rational arithmetic over integers   *)
(* and applies the program's decimal roundings (round(x, k)) as            *)
(* round-half-to-even on the exact value.  Where the exact value lies on a *)
(* rounding tie the program's result follows the representation error of   *)
(* its floats; the adjustment maps of GridAdjustments and AdjChoices, on   *)
(* the ParameterSets of Settings, those of EdgeInputs on the three         *)
(* four-mode ParameterSets of EdgeSettings, and CalcInputs, are inputs for *)
(* which every field the model computes is the field the program returns.  *)
(* One function is computed in rounded arithmetic as well: what            *)
(* _calculate_gini returns is not rounded by the function itself, so its   *)
(* float operations are modelled one by one (GiniFloat), on a mantissa of  *)
(* MantissaBits bits; EquityModel.calculate rounds that return to three    *)
(* decimals, where the error of the floats does not show (GiniFrac).       *)
(* Every quantity is an integer in a fixed unit, stated where the quantity *)
(* is defined:                                                             *)
(*   - a share map is [num, den]: mode m has the share num[m] / den;       *)
(*     the shares round(v, 4) returns have den = 10000;                    *)
(*   - money is in hundredths of the currency unit, percentages of the     *)
(*     levers are whole percents, congestion_price is in whole currency    *)
(*     units, times are in tenths of a minute;                             *)
(*   - the three daily/yearly totals are [hi, lo] pairs of hundredths,     *)
(*     value hi * 1000 + lo, because they exceed 32 bits.                  *)
(***************************************************************************)
EXTENDS Integers, Sequences, FiniteSets, TLC

(***************************************************************************)
(* Exact arithmetic                                                        *)
(***************************************************************************)
Abs(x) == IF x < 0 THEN -x ELSE x

Max(a, b) == IF a >= b THEN a ELSE b

Min(a, b) == IF a <= b THEN a ELSE b

RECURSIVE GCD(_, _)
GCD(a, b) == IF b = 0 THEN Abs(a) ELSE GCD(b, a % Abs(b))

\* round(n / d) to the nearest integer, ties to the even one of the two
\* neighbours (Python 3 round), d # 0.  base is an integer that is added to
\* the result by the caller: on a tie the neighbour c with base + c even wins.
RoundHalfEvenOn(n, d, base) ==
    LET nn == IF d < 0 THEN -n ELSE n
        dd == Abs(d)
        q  == nn \div dd
        r  == nn % dd
    IN  IF 2 * r < dd THEN q
        ELSE IF 2 * r > dd THEN q + 1
        ELSE IF (base + q) % 2 = 0 THEN q ELSE q + 1

\* n * 10^places = q * d + r with 0 <= r < d, for d > 0, by long division one
\* decimal digit at a time (no product larger than 10 * d is formed).
RECURSIVE DivScaled(_, _, _)
DivScaled(n, d, places) ==
    IF places = 0 THEN [q |-> n \div d, r |-> n % d]
    ELSE LET p == DivScaled(n, d, places - 1)
         IN  [q |-> p.q * 10 + (p.r * 10) \div d, r |-> (p.r * 10) % d]

\* round(n / d, places) in units of 10^-places, d # 0: Python's round(x, k)
\* on the exact value x = n / d.
RoundDec(n, d, places) ==
    LET nn == IF d < 0 THEN -n ELSE n
        dd == Abs(d)
        p  == DivScaled(nn, dd, places)
    IN  IF 2 * p.r < dd THEN p.q
        ELSE IF 2 * p.r > dd THEN p.q + 1
        ELSE IF p.q % 2 = 0 THEN p.q ELSE p.q + 1

\* A reduced fraction [n, d] with d > 0.
Frac(n, d) ==
    LET g == GCD(n, d)
        s == IF d < 0 THEN -1 ELSE 1
    IN  [n |-> s * (n \div g), d |-> s * (d \div g)]

\* The product of two reduced fractions, reduced crosswise before
\* multiplying so that the intermediate products stay small.
FracMul(f, g) ==
    LET g1 == GCD(f.n, g.d)
        g2 == GCD(g.n, f.d)
    IN  [n |-> (f.n \div g1) * (g.n \div g2), d |-> (f.d \div g2) * (g.d \div g1)]

\* A term s * f of a sum: an integer s times a reduced fraction f.
Term(s, f) == [s |-> s, f |-> f]

RECURSIVE LcmDen(_, _)
LcmDen(terms, i) ==
    IF i = 0 THEN 1
    ELSE LET l == LcmDen(terms, i - 1)
             d == terms[i].f.d
         IN  (l \div GCD(l, d)) * d

RECURSIVE IntSum(_, _)
IntSum(terms, i) ==
    IF i = 0 THEN 0
    ELSE IntSum(terms, i - 1) + terms[i].s * (terms[i].f.n \div terms[i].f.d)

RECURSIVE FracSum(_, _, _)
FracSum(terms, l, i) ==
    IF i = 0 THEN 0
    ELSE FracSum(terms, l, i - 1)
         + terms[i].s * (terms[i].f.n % terms[i].f.d) * (l \div terms[i].f.d)

\* round(sum of the terms' exact values) to the nearest integer: the whole
\* parts are summed apart from the fractional parts, which are summed over
\* the least common denominator.
RoundSum(terms) ==
    LET l    == LcmDen(terms, Len(terms))
        base == IntSum(terms, Len(terms))
    IN  base + RoundHalfEvenOn(FracSum(terms, l, Len(terms)), l, base)

\* A total too large for 32 bits is the pair [hi, lo] with value
\* hi * 1000 + lo and 0 <= lo < 1000.
\* round(x * f) as a big total, for an integer x and a reduced fraction f
\* with f.n >= 0: the product x * f.n in three limbs of base 1000, divided
\* by f.d limb by limb, the remainder deciding the rounding.
BigRoundMul(x, f) ==
    LET xh == x \div 1000
        xl == x % 1000
        nh == f.n \div 1000
        nl == f.n % 1000
        p2 == xh * nh
        p1 == xh * nl + xl * nh
        p0 == xl * nl
        q2 == p2 \div f.d
        t1 == (p2 % f.d) * 1000 + p1
        q1 == t1 \div f.d
        t0 == (t1 % f.d) * 1000 + p0
        q0 == t0 \div f.d
        r0 == t0 % f.d
        up == IF 2 * r0 > f.d \/ (2 * r0 = f.d /\ q0 % 2 = 1) THEN 1 ELSE 0
        low == q0 + up
    IN  [hi |-> q2 * 1000 + q1 + low \div 1000, lo |-> low % 1000]

\* sorted(values): insertion of x into an ascending sequence, and the sort.
RECURSIVE Insert(_, _)
Insert(x, sq) ==
    IF sq = <<>> THEN <<x>>
    ELSE IF x <= Head(sq) THEN <<x>> \o sq
    ELSE <<Head(sq)>> \o Insert(x, Tail(sq))

RECURSIVE Sorted(_)
Sorted(sq) == IF sq = <<>> THEN <<>> ELSE Insert(Head(sq), Sorted(Tail(sq)))

RECURSIVE SeqSum(_)
SeqSum(sq) == IF sq = <<>> THEN 0 ELSE Head(sq) + SeqSum(Tail(sq))

\* np.cumsum(values)
RECURSIVE CumSum(_)
CumSum(sq) ==
    IF sq = <<>> THEN <<>>
    ELSE LET front == CumSum(SubSeq(sq, 1, Len(sq) - 1))
         IN  Append(front, SeqSum(sq))


(***************************************************************************)
(* Parameter sets (src/config.py)                                          *)
(***************************************************************************)
\* The order in which a dict built in the order of DEFAULT_PARAMS iterates.
ModeOrder == <<"private_car", "motorcycle", "public_transit", "walking_cycling">>

\* DEFAULT_PARAMS.  Units: mode_share is a share map (0.45 = 45/100);
\* avg_trip_distance_km, avg_trip_time_minutes, avg_vehicle_occupancy and
\* fuel_efficiency_km_per_liter in tenths; fuel_price_per_liter,
\* public_transit_fare and avg_hourly_wage in hundredths of the currency
\* unit; emission_factors in grams of CO2 per km.
DEFAULT_PARAMS ==
    [ population |-> 1000000,
      daily_trips |-> 2500000,
      mode_share |-> [ num |-> [ private_car |-> 45, motorcycle |-> 25,
                                 public_transit |-> 20, walking_cycling |-> 10 ],
                       den |-> 100 ],
      avg_trip_distance_km |-> 120,
      avg_trip_time_minutes |-> 350,
      avg_vehicle_occupancy |-> 13,
      fuel_efficiency_km_per_liter |-> 120,
      fuel_price_per_liter |-> 120,
      public_transit_fare |-> 150,
      avg_hourly_wage |-> 800,
      emission_factors |-> [ private_car |-> 210, motorcycle |-> 100,
                             public_transit |-> 50, walking_cycling |-> 0 ] ]

\* get_context_params for the contexts simulated here: the defaults with the
\* regional overrides (REGIONAL_CONTEXTS) written over the keys they name.
get_context_params(context_name) ==
    IF context_name = "malaysia"
    THEN [DEFAULT_PARAMS EXCEPT !.fuel_price_per_liter = 205,
                                !.public_transit_fare = 300,
                                !.avg_hourly_wage = 1500]
    ELSE DEFAULT_PARAMS

\* A parameter set a caller builds by hand and passes to
\* PolicySimulator(params): the defaults with mode shares that sum to 1.0
\* and need five decimals (15/32 = 0.46875, 8/32 = 0.25, 6/32 = 0.1875,
\* 3/32 = 0.09375).
DyadicParams ==
    [DEFAULT_PARAMS EXCEPT !.mode_share =
        [ num |-> [ private_car |-> 15, motorcycle |-> 8,
                    public_transit |-> 6, walking_cycling |-> 3 ],
          den |-> 32 ]]

\* Parameter sets at the edges of what a caller may pass: the defaults with
\* every mode share 0; with one mode's share 0 (private_car, then
\* public_transit); and with a fifth mode that the models' tables do not
\* name.
ZeroShareParams ==
    [DEFAULT_PARAMS EXCEPT !.mode_share =
        [ num |-> [ private_car |-> 0, motorcycle |-> 0,
                    public_transit |-> 0, walking_cycling |-> 0 ],
          den |-> 10 ]]

NoCarParams ==
    [DEFAULT_PARAMS EXCEPT !.mode_share =
        [ num |-> [ private_car |-> 0, motorcycle |-> 5,
                    public_transit |-> 3, walking_cycling |-> 2 ],
          den |-> 10 ]]

NoTransitParams ==
    [DEFAULT_PARAMS EXCEPT !.mode_share =
        [ num |-> [ private_car |-> 6, motorcycle |-> 2,
                    public_transit |-> 0, walking_cycling |-> 2 ],
          den |-> 10 ]]

ExtraModeParams ==
    [DEFAULT_PARAMS EXCEPT !.mode_share =
        [ num |-> [ private_car |-> 4, motorcycle |-> 2, public_transit |-> 2,
                    walking_cycling |-> 1, e_scooter |-> 1 ],
          den |-> 10 ]]

\* The parameter set of a simulator, by the name of how it was built.
ParamsOf(setting) ==
    CASE setting = "dyadic"      -> DyadicParams
      [] setting = "zero_shares" -> ZeroShareParams
      [] setting = "no_car"      -> NoCarParams
      [] setting = "no_transit"  -> NoTransitParams
      [] setting = "extra_mode"  -> ExtraModeParams
      [] OTHER                   -> get_context_params(setting)

(***************************************************************************)
(* Adjustment maps: a function from lever names to values.                 *)
(***************************************************************************)
\* dict.get(key, 0)
Get(policy, key) == IF key \in DOMAIN policy THEN policy[key] ELSE 0

\* The sum of a share map's numerators, in dict order.
RECURSIVE SumOver(_, _)
SumOver(f, keys) ==
    IF keys = {} THEN 0
    ELSE LET k == CHOOSE x \in keys : TRUE
         IN  f[k] + SumOver(f, keys \ {k})

SumNum(sm) == SumOver(sm.num, DOMAIN sm.num)

(***************************************************************************)
(* ModeShareModel (src/models.py)                                          *)
(***************************************************************************)
\* self.elasticities, in tenths.
elasticities ==
    [ private_car |-> -3, motorcycle |-> -4,
      public_transit |-> -4, walking_cycling |-> -1 ]

\* self.cross_elasticities, in dict order: <<mode_a, mode_b, cross_e>> with
\* cross_e in tenths.
cross_elasticities ==
    << <<"private_car", "public_transit", 3>>,
       <<"public_transit", "private_car", 2>> >>

\* A variant of PriceChanges in which peak_multiplier (in tenths) scales the
\* congestion price.
PriceChangesPeak(policy) ==
    LET ft == IF "fuel_tax_percent" \in DOMAIN policy THEN policy["fuel_tax_percent"] ELSE 0
        pt == IF "pt_subsidy_percent" \in DOMAIN policy THEN policy["pt_subsidy_percent"] ELSE 0
        cp == IF "congestion_price" \in DOMAIN policy THEN policy["congestion_price"] ELSE 0
        pk == IF "peak_multiplier" \in DOMAIN policy THEN policy["peak_multiplier"] ELSE 10
    IN  [private_car |-> ft + cp * pk, motorcycle |-> ft,
         public_transit |-> -pt, walking_cycling |-> 0]

\* A variant of PriceChanges in which a map without congestion_price is read
\* as the catalog's default price of 5.
PriceChangesDefaultPrice(policy) ==
    LET ft == IF "fuel_tax_percent" \in DOMAIN policy THEN policy["fuel_tax_percent"] ELSE 0
        pt == IF "pt_subsidy_percent" \in DOMAIN policy THEN policy["pt_subsidy_percent"] ELSE 0
        cp == IF "congestion_price" \in DOMAIN policy THEN policy["congestion_price"] ELSE 5
    IN  [private_car |-> ft + cp * 10, motorcycle |-> ft,
         public_transit |-> -pt, walking_cycling |-> 0]

\* A variant of PriceChanges in which the transit subsidy raises the price
\* of public_transit.
PriceChangesSubsidyAsSurcharge(policy) ==
    LET base == [ private_car |-> Get(policy, "fuel_tax_percent"),
                  motorcycle |-> Get(policy, "fuel_tax_percent"),
                  public_transit |-> Get(policy, "pt_subsidy_percent"),
                  walking_cycling |-> 0 ]
    IN  IF Get(policy, "congestion_price") > 0
        THEN [base EXCEPT !.private_car = @ + policy["congestion_price"] * 10]
        ELSE base

\* price_changes, in hundredths: fuel_tax_percent / 100 for private_car and
\* motorcycle, -pt_subsidy_percent / 100 for public_transit, 0 for
\* walking_cycling, and congestion_price * 0.1 more for private_car when
\* congestion_price > 0.
\* A variant of PriceChanges in which the parking rate raises the price of
\* the car like a congestion price.
PriceChangesParking(policy) ==
    [ private_car |-> Get(policy, "fuel_tax_percent")
                        + Get(policy, "congestion_price") * 10
                        + Get(policy, "parking_hourly_rate") * 10,
      motorcycle |-> Get(policy, "fuel_tax_percent"),
      public_transit |-> -Get(policy, "pt_subsidy_percent"),
      walking_cycling |-> 0 ]

PriceChanges(policy) ==
    LET base == [ private_car |-> Get(policy, "fuel_tax_percent"),
                  motorcycle |-> Get(policy, "fuel_tax_percent"),
                  public_transit |-> -Get(policy, "pt_subsidy_percent"),
                  walking_cycling |-> 0 ]
    IN  IF Get(policy, "congestion_price") > 0
        THEN [base EXCEPT !.private_car = @ + policy["congestion_price"] * 10]
        ELSE base

\* The greatest common divisor of a map's values.
RECURSIVE GcdOver(_, _)
GcdOver(f, keys) ==
    IF keys = {} THEN 0
    ELSE LET k == CHOOSE x \in keys : TRUE
         IN  GCD(f[k], GcdOver(f, keys \ {k}))

\* The share map in lowest terms: the same shares over the smallest
\* denominator.
Lowest(sm) ==
    LET g == GCD(GcdOver(sm.num, DOMAIN sm.num), sm.den)
    IN  IF g = 0 THEN sm
        ELSE [num |-> [m \in DOMAIN sm.num |-> sm.num[m] \div g], den |-> sm.den \div g]

\* The own-price loop: projected[mode] = baseline[mode] * (1 + elasticity *
\* price_change) for every mode of price_changes whose price change is not 0;
\* a mode of the baseline that price_changes does not name keeps its share.
\* The lever values are in 1/unit of their units, so that price_changes is in
\* 1/(100 * unit) and elasticity * price_change in 1/(1000 * unit).
OwnPriceStepAt(baseline, price_changes, unit) ==
    Lowest([ num |-> [ m \in DOMAIN baseline.num |->
                         IF Get(price_changes, m) # 0
                         THEN baseline.num[m]
                                  * (1000 * unit + elasticities[m] * price_changes[m])
                         ELSE baseline.num[m] * 1000 * unit ],
             den |-> baseline.den * 1000 * unit ])

\* The own-price loop for lever values in whole units.
OwnPriceStep(baseline, price_changes) == OwnPriceStepAt(baseline, price_changes, 1)

\* The cross-elasticity loop over the first i pairs: projected[mode_a] =
\* projected[mode_a] * (1 + cross_e * price_changes[mode_b]) when
\* price_changes.get(mode_b, 0) != 0.  Numerators are over 1000 * unit times
\* the den of `projected` (every mode is scaled, the untouched ones by 1).
RECURSIVE CrossNumAt(_, _, _, _)
CrossNumAt(num, price_changes, i, unit) ==
    IF i = 0 THEN [m \in DOMAIN num |-> num[m] * 1000 * unit]
    ELSE LET prev == CrossNumAt(num, price_changes, i - 1, unit)
             pair == cross_elasticities[i]
             a    == pair[1]
             pcb  == Get(price_changes, pair[2])
         IN  IF pcb # 0
             THEN [prev EXCEPT ![a] = (@ \div (1000 * unit)) * (1000 * unit + pair[3] * pcb)]
             ELSE prev

CrossNum(num, price_changes, i) == CrossNumAt(num, price_changes, i, 1)

CrossPriceStepAt(projected, price_changes, unit) ==
    Lowest([ num |-> CrossNumAt(projected.num, price_changes,
                                Len(cross_elasticities), unit),
             den |-> projected.den * 1000 * unit ])

CrossPriceStep(projected, price_changes) == CrossPriceStepAt(projected, price_changes, 1)

\* A variant of Normalize that divides by every total but 0.
NormalizeNonZero(projected) ==
    LET total == SumNum(projected)
    IN  IF total # 0 THEN [num |-> projected.num, den |-> total] ELSE projected

\* total = sum(projected.values()); if total > 0: every share / total.
Normalize(projected) ==
    LET total == SumNum(projected)
    IN  IF total > 0 THEN [num |-> projected.num, den |-> total] ELSE projected

\* A variant of RoundShares that rounds to three decimals.
RoundSharesThreeDecimals(projected) ==
    [ num |-> [ m \in DOMAIN projected.num |->
                  10 * RoundDec(projected.num[m], projected.den, 3) ],
      den |-> 10000 ]

\* {k: round(v, 4)}: the shares in units of 1/10000.
RoundShares(projected) ==
    [ num |-> [ m \in DOMAIN projected.num |->
                  RoundDec(projected.num[m], projected.den, 4) ],
      den |-> 10000 ]

\* round((projected - baseline) / baseline * 100, 2) if baseline > 0 else 0,
\* in hundredths of a percent.
ShiftPercentage(baseline, projected) ==
    [ m \in DOMAIN baseline.num |->
        IF baseline.num[m] > 0
        THEN RoundDec(projected.num[m] * baseline.den - projected.den * baseline.num[m],
                      projected.den * baseline.num[m], 4)
        ELSE 0 ]

\* baseline[mode] in the own-price loop and projected[mode_a] in the
\* cross-elasticity loop raise KeyError when the ParameterSet's mode_share
\* lacks a mode whose price changed.
ModeShareKeyError(params, policy) ==
    LET pcs   == PriceChanges(policy)
        modes == DOMAIN params.mode_share.num
    IN  \/ \E m \in DOMAIN pcs : pcs[m] # 0 /\ m \notin modes
        \/ \E i \in 1..Len(cross_elasticities) :
               /\ Get(pcs, cross_elasticities[i][2]) # 0
               /\ cross_elasticities[i][1] \notin modes

\* ModeShareModel.calculate(policy_adjustments), for lever values in 1/unit
\* of their units.
ModeShareCalculateAt(params, policy, unit) ==
    LET baseline  == params.mode_share
        pcs       == PriceChanges(policy)
        own       == OwnPriceStepAt(baseline, pcs, unit)
        cross     == CrossPriceStepAt(own, pcs, unit)
        projected == RoundShares(Normalize(cross))
    IN  [ baseline_shares |-> baseline,
          projected_shares |-> projected,
          shift_percentage |-> ShiftPercentage(baseline, projected) ]

\* ModeShareModel.calculate(policy_adjustments) for lever values in whole
\* units.
ModeShareCalculate(params, policy) == ModeShareCalculateAt(params, policy, 1)

(***************************************************************************)
(* EmissionsModel (src/models.py)                                          *)
(***************************************************************************)
\* `mode_share or self.params["mode_share"]`: an empty map is falsy.
ShareOr(mode_share, params) ==
    IF DOMAIN mode_share.num = {} THEN params.mode_share ELSE mode_share

\* The elements of a set as a sequence.
RECURSIVE SeqOf(_)
SeqOf(S) ==
    IF S = {} THEN <<>>
    ELSE LET x == CHOOSE y \in S : TRUE IN <<x>> \o SeqOf(S \ {x})

\* The modes of a share map in the order the map is iterated: the modes of
\* DEFAULT_PARAMS in their order, then the modes a caller added.
ModesOf(mode_share) ==
    SelectSeq(ModeOrder, LAMBDA m : m \in DOMAIN mode_share.num)
        \o SeqOf(DOMAIN mode_share.num \ {ModeOrder[i] : i \in 1..Len(ModeOrder)})

\* A variant of EmissionPerShare in which every mode's emission factor is
\* divided by the occupancy.
EmissionPerShareAllOccupancy(params, mode, den) ==
    LET ef0  == IF mode \in DOMAIN params.emission_factors
                THEN params.emission_factors[mode] ELSE 0
        ef   == FracMul(Frac(ef0, 1000), Frac(10, params.avg_vehicle_occupancy))
        dist == FracMul(Frac(params.daily_trips, den), Frac(params.avg_trip_distance_km, 10))
    IN  FracMul(dist, ef)

\* kg of CO2 per day for one unit of a share's numerator:
\* daily_trips / den * avg_distance * ef, ef divided by the occupancy for
\* private cars; a mode without an emission factor gets 0.
EmissionPerShare(params, mode, den) ==
    LET ef0  == IF mode \in DOMAIN params.emission_factors
                THEN params.emission_factors[mode] ELSE 0
        ef   == IF mode = "private_car"
                THEN FracMul(Frac(ef0, 1000), Frac(10, params.avg_vehicle_occupancy))
                ELSE Frac(ef0, 1000)
        dist == FracMul(Frac(params.daily_trips, den), Frac(params.avg_trip_distance_km, 10))
    IN  FracMul(dist, ef)

\* The terms of total_co2 scaled by the fraction `scale`.
EmissionTerms(params, mode_share, scale) ==
    LET ms == ModesOf(mode_share)
    IN  [i \in 1..Len(ms) |->
            Term(mode_share.num[ms[i]],
                 FracMul(EmissionPerShare(params, ms[i], mode_share.den), scale))]

EmissionsCalculate(params, mode_share_arg) ==
    LET mode_share == ShareOr(mode_share_arg, params)
    IN  [ total_co2_kg_per_day |->
              RoundSum(EmissionTerms(params, mode_share, Frac(100, 1))),
          co2_by_mode |->
              [m \in DOMAIN mode_share.num |->
                  RoundSum(<<Term(mode_share.num[m],
                      FracMul(EmissionPerShare(params, m, mode_share.den), Frac(100, 1)))>>)],
          per_capita_co2_kg |->
              RoundSum(EmissionTerms(params, mode_share, Frac(10000, params.population))),
          per_trip_co2_kg |->
              RoundSum(EmissionTerms(params, mode_share, Frac(10000, params.daily_trips))) ]

(***************************************************************************)
(* CostBenefitModel (src/models.py)                                        *)
(***************************************************************************)
\* value_of_time = hourly_wage * 0.5 / 60, in hundredths per minute.
ValueOfTime(params) == Frac(params.avg_hourly_wage, 120)

\* avg_time * factor * value_of_time, in hundredths; factor is in tenths.
TimeCost(params, factor) ==
    FracMul(FracMul(Frac(params.avg_trip_time_minutes, 10), Frac(factor, 10)),
            ValueOfTime(params))

\* A variant of CostByMode in which the subsidy scales the whole cost of
\* public transit, time included.
CostByModeSubsidyOnTotal(params, policy) ==
    LET tax      == 100 + Get(policy, "fuel_tax_percent")
        subsidy  == 100 - Get(policy, "pt_subsidy_percent")
        price    == Frac(params.fuel_price_per_liter, 100)
        carFuel  == FracMul(Frac(params.avg_trip_distance_km,
                                 params.fuel_efficiency_km_per_liter), price)
        motoFuel == FracMul(Frac(params.avg_trip_distance_km * 10,
                                 params.fuel_efficiency_km_per_liter * 15), price)
    IN  [ private_car     |-> RoundSum(<<Term(tax, carFuel), Term(1, TimeCost(params, 10))>>),
          motorcycle      |-> RoundSum(<<Term(tax, motoFuel), Term(1, TimeCost(params, 9))>>),
          public_transit  |-> RoundSum(<<Term(subsidy, Frac(params.public_transit_fare, 100)),
                                         Term(subsidy, FracMul(TimeCost(params, 13), Frac(1, 100)))>>),
          walking_cycling |-> RoundSum(<<Term(1, TimeCost(params, 15))>>) ]

\* The costs of the modes in hundredths: fuel (with the tax) plus time for
\* private_car and motorcycle, the fare (less the subsidy) plus time for
\* public_transit, time alone for walking_cycling.
CostByMode(params, policy) ==
    LET tax      == 100 + Get(policy, "fuel_tax_percent")
        subsidy  == 100 - Get(policy, "pt_subsidy_percent")
        price    == Frac(params.fuel_price_per_liter, 100)
        carFuel  == FracMul(Frac(params.avg_trip_distance_km,
                                 params.fuel_efficiency_km_per_liter), price)
        motoFuel == FracMul(Frac(params.avg_trip_distance_km * 10,
                                 params.fuel_efficiency_km_per_liter * 15), price)
    IN  [ private_car     |-> RoundSum(<<Term(tax, carFuel), Term(1, TimeCost(params, 10))>>),
          motorcycle      |-> RoundSum(<<Term(tax, motoFuel), Term(1, TimeCost(params, 9))>>),
          public_transit  |-> RoundSum(<<Term(subsidy, Frac(params.public_transit_fare, 100)),
                                         Term(1, TimeCost(params, 13))>>),
          walking_cycling |-> RoundSum(<<Term(1, TimeCost(params, 15))>>) ]

\* sum(cost_by_mode[mode] * share): the numerator over mode_share.den.
UserCostNum(cost_by_mode, mode_share) ==
    SumOver([m \in DOMAIN mode_share.num |-> cost_by_mode[m] * mode_share.num[m]],
            DOMAIN mode_share.num)

\* mode_share.get("public_transit", 0.2) times pt_subsidy_percent, over den.
SubsidisedShareNum(mode_share, policy) ==
    (IF "public_transit" \in DOMAIN mode_share.num
     THEN mode_share.num["public_transit"] ELSE mode_share.den \div 5)
    * Get(policy, "pt_subsidy_percent")

\* cost_by_mode[mode] raises KeyError for a mode of the share map that
\* cost_by_mode does not hold.
CostKeyError(params, mode_share_arg) ==
    DOMAIN ShareOr(mode_share_arg, params).num \ DOMAIN CostByMode(params, <<>>) # {}

CostCalculate(params, mode_share_arg, policy) ==
    LET mode_share   == ShareOr(mode_share_arg, params)
        cost_by_mode == CostByMode(params, policy)
        user_cost    == UserCostNum(cost_by_mode, mode_share)
        perYear      == FracMul(FracMul(Frac(params.daily_trips, mode_share.den),
                                        Frac(params.public_transit_fare, 100)),
                                Frac(365, 1))
    IN  [ user_cost_per_trip       |-> RoundDec(user_cost, mode_share.den, 0),
          total_user_cost_per_day  |->
              BigRoundMul(user_cost, Frac(params.daily_trips, mode_share.den)),
          government_cost_per_year |->
              BigRoundMul(SubsidisedShareNum(mode_share, policy), perYear),
          cost_by_mode             |-> cost_by_mode ]

(***************************************************************************)
(* EquityModel (src/models.py)                                             *)
(***************************************************************************)
IncomeGroups == <<"low", "lower_middle", "middle", "upper_middle", "high">>

\* income_multiplier of each group, in tenths.
income_multiplier ==
    [low |-> 4, lower_middle |-> 7, middle |-> 10, upper_middle |-> 15, high |-> 25]

\* A variant of Burden that leaves the income multiplier out: every group
\* has the income of the middle group.
BurdenIncomeBlind(params, user_cost_per_trip, group) ==
    LET perPerson == Frac(params.daily_trips, params.population)
        perIncome == FracMul(Frac(10, 8 * income_multiplier.middle),
                             Frac(10000, params.avg_hourly_wage))
    IN  RoundSum(<<Term(user_cost_per_trip, FracMul(perPerson, perIncome))>>)

\* burden = user_cost * trips_per_person / (wage * 8 * multiplier) * 100,
\* in hundredths of a percent, from the user cost in hundredths.
Burden(params, user_cost_per_trip, group) ==
    LET perPerson == Frac(params.daily_trips, params.population)
        perIncome == FracMul(Frac(10, 8 * income_multiplier[group]),
                             Frac(10000, params.avg_hourly_wage))
    IN  RoundSum(<<Term(user_cost_per_trip, FracMul(perPerson, perIncome))>>)

\* accessibility = min(1, multiplier) * 0.5 + (subsidy / 200) * 0.5, in hundredths.
Accessibility(policy, group) ==
    RoundDec(20 * Min(10, income_multiplier[group]) + Get(policy, "pt_subsidy_percent"), 4, 0)

\* A variant of GiniFrac that does not sort the values.
GiniFracUnsorted(values) ==
    LET n      == Len(values)
        cumsum == CumSum(values)
    IN  IF n = 0 \/ SeqSum(values) = 0 THEN [n |-> 0, d |-> 1]
        ELSE [n |-> (n + 1) * cumsum[n] - 2 * SeqSum(cumsum), d |-> n * cumsum[n]]

\* _calculate_gini over the rounded burdens: the numerator and denominator
\* of (n + 1 - 2 * sum(cumsum) / cumsum[-1]) / n, and 0 when the sum is 0.
GiniFrac(values) ==
    LET sorted == Sorted(values)
        n      == Len(sorted)
        cumsum == CumSum(sorted)
    IN  IF n = 0 \/ SeqSum(sorted) = 0 THEN [n |-> 0, d |-> 1]
        ELSE [n |-> (n + 1) * cumsum[n] - 2 * SeqSum(cumsum), d |-> n * cumsum[n]]

EquityCalculate(params, user_cost_per_trip, mode_share, policy) ==
    LET burden_by_income ==
            [g \in {IncomeGroups[i] : i \in 1..Len(IncomeGroups)} |->
                Burden(params, user_cost_per_trip, g)]
        burdens == [i \in 1..Len(IncomeGroups) |-> burden_by_income[IncomeGroups[i]]]
        gini    == GiniFrac(burdens)
    IN  [ gini_index              |-> RoundDec(gini.n, gini.d, 3),
          accessibility_by_income |->
              [g \in {IncomeGroups[i] : i \in 1..Len(IncomeGroups)} |->
                  Accessibility(policy, g)],
          burden_by_income        |-> burden_by_income,
          equity_score            |-> RoundDec(gini.d - gini.n, gini.d, 3) ]

(***************************************************************************)
(* EfficiencyModel (src/models.py)                                         *)
(***************************************************************************)
\* base_times, in minutes.
base_times ==
    [private_car |-> 30, motorcycle |-> 25, public_transit |-> 45, walking_cycling |-> 50]

\* A variant of TravelTimeByMode in which congestion touches every mode.
TravelTimeByModeEveryMode(congestion_factor) ==
    [m \in DOMAIN base_times |->
        RoundSum(<<Term(base_times[m] * 10, congestion_factor)>>)]

\* round(time, 1) in tenths of a minute; congestion touches car and motorcycle.
TravelTimeByMode(congestion_factor) ==
    [m \in DOMAIN base_times |->
        IF m \in {"private_car", "motorcycle"}
        THEN RoundSum(<<Term(base_times[m] * 10, congestion_factor)>>)
        ELSE base_times[m] * 10]

\* travel_time_by_mode[mode] raises KeyError for a mode of the share map
\* that base_times does not hold.
EfficiencyKeyError(params, mode_share_arg) ==
    DOMAIN ShareOr(mode_share_arg, params).num \ DOMAIN base_times # {}

\* A variant of EfficiencyCalculate in which a free-flow time of 0 gives the
\* congestion index 0.
EfficiencyCalculateZeroIndex(params, mode_share_arg, congestion_factor) ==
    LET mode_share == ShareOr(mode_share_arg, params)
        times      == TravelTimeByMode(congestion_factor)
        avg_time   == SumOver([m \in DOMAIN mode_share.num |-> times[m] * mode_share.num[m]],
                              DOMAIN mode_share.num)
        free_flow  == SumOver([m \in DOMAIN mode_share.num |-> base_times[m] * mode_share.num[m]],
                              DOMAIN mode_share.num)
    IN  [ avg_travel_time_minutes |-> RoundDec(avg_time, mode_share.den, 0),
          travel_time_by_mode     |-> times,
          congestion_index        |->
              IF free_flow > 0 THEN RoundDec(avg_time, 10 * free_flow, 3) ELSE 0,
          system_throughput       |->
              IF avg_time > 0
              THEN RoundDec(params.avg_trip_distance_km * 60 * mode_share.den, avg_time, 2)
              ELSE 0 ]

EfficiencyCalculate(params, mode_share_arg, congestion_factor) ==
    LET mode_share == ShareOr(mode_share_arg, params)
        times      == TravelTimeByMode(congestion_factor)
        avg_time   == SumOver([m \in DOMAIN mode_share.num |-> times[m] * mode_share.num[m]],
                              DOMAIN mode_share.num)
        free_flow  == SumOver([m \in DOMAIN mode_share.num |-> base_times[m] * mode_share.num[m]],
                              DOMAIN mode_share.num)
    IN  [ avg_travel_time_minutes |-> RoundDec(avg_time, mode_share.den, 0),
          travel_time_by_mode     |-> times,
          congestion_index        |->
              IF free_flow > 0 THEN RoundDec(avg_time, 10 * free_flow, 3) ELSE 1000,
          system_throughput       |->
              IF avg_time > 0
              THEN RoundDec(params.avg_trip_distance_km * 60 * mode_share.den, avg_time, 2)
              ELSE 0 ]

(***************************************************************************)
(* PolicySimulator (src/models.py)                                         *)
(***************************************************************************)
ShareGet(mode_share, mode) ==
    IF mode \in DOMAIN mode_share.num THEN mode_share.num[mode] ELSE 0

\* A variant of CongestionFactor without the floor.
CongestionFactorUnfloored(params, new_mode_share) ==
    LET b == params.mode_share
    IN  Frac(new_mode_share.den * b.den
               + ShareGet(new_mode_share, "private_car") * b.den
               - ShareGet(b, "private_car") * new_mode_share.den,
             new_mode_share.den * b.den)

\* max(0.8, 1.0 + (projected car share - baseline car share)), a fraction.
CongestionFactor(params, new_mode_share) ==
    LET b  == params.mode_share
        cf == Frac(new_mode_share.den * b.den
                     + ShareGet(new_mode_share, "private_car") * b.den
                     - ShareGet(b, "private_car") * new_mode_share.den,
                   new_mode_share.den * b.den)
    IN  IF 5 * cf.n < 4 * cf.d THEN Frac(4, 5) ELSE cf

\* _calculate_overall_score, in tenths of a point: each of the four scores
\* brought to the common denominator 600 of 25 * score.
CalculateOverallScore(emissions, cost, equity, efficiency) ==
    LET emissions_score  == Max(0, 50000 - emissions.per_trip_co2_kg)
        cost_score       == Max(0, 2000 - cost.user_cost_per_trip)
        equity_score     == equity.equity_score
        efficiency_score == Max(0, 600 - efficiency.avg_travel_time_minutes)
    IN  RoundDec(3 * emissions_score + 75 * cost_score
                   + 150 * equity_score + 250 * efficiency_score, 600, 0)

\* _generate_summary: the four numbers the text shows, as it formats them
\* (whole kg, hundredths of currency, hundredths of the score, whole minutes).
GenerateSummary(emissions, cost, equity, efficiency) ==
    << RoundDec(emissions.total_co2_kg_per_day, 100, 0),
       cost.user_cost_per_trip,
       RoundDec(equity.equity_score, 10, 0),
       RoundDec(efficiency.avg_travel_time_minutes, 10, 0) >>

\* simulate, run from start to end without interruption.
Simulate(params, policy) ==
    LET mode_result       == ModeShareCalculate(params, policy)
        new_mode_share    == mode_result.projected_shares
        emissions_result  == EmissionsCalculate(params, new_mode_share)
        cost_result       == CostCalculate(params, new_mode_share, policy)
        equity_result     == EquityCalculate(params, cost_result.user_cost_per_trip,
                                             new_mode_share, policy)
        efficiency_result == EfficiencyCalculate(params, new_mode_share,
                                                 CongestionFactor(params, new_mode_share))
    IN  [ emissions     |-> emissions_result,
          cost          |-> cost_result,
          equity        |-> equity_result,
          efficiency    |-> efficiency_result,
          mode_share    |-> mode_result,
          overall_score |-> CalculateOverallScore(emissions_result, cost_result,
                                                  equity_result, efficiency_result),
          summary       |-> GenerateSummary(emissions_result, cost_result,
                                            equity_result, efficiency_result) ]

(***************************************************************************)
(* Inputs: the ParameterSets a simulator is built on and the adjustment    *)
(* maps callers pass to simulate.                                          *)
(***************************************************************************)
Settings == {"default", "dyadic"}

Levers == {"fuel_tax_percent", "pt_subsidy_percent", "congestion_price"}

\* The adjustment map that sets the levers with a non-zero value.
Adj(ft, pt, cp) ==
    LET full == [fuel_tax_percent |-> ft, pt_subsidy_percent |-> pt, congestion_price |-> cp]
    IN  [k \in {l \in Levers : full[l] # 0} |-> full[k]]

FuelTaxLevels == {0, 10, 40, 60}
SubsidyLevels == {0, 20, 40, 70}
CongestionPrices == {0, 1, 2, 5, 10}

\* Each lever alone at the top of its documented range, all three there,
\* and a congestion price far beyond what Policy.validate accepts.
CornerAdjustments ==
    {Adj(100, 0, 0), Adj(0, 100, 0), Adj(0, 0, 50), Adj(100, 100, 50), Adj(0, 0, 200)}

GridAdjustments ==
    {Adj(ft, pt, cp) : ft \in FuelTaxLevels, pt \in SubsidyLevels, cp \in CongestionPrices}
        \cup CornerAdjustments

\* Keys the policy catalog puts in adjustment maps that no model reads
\* (peak_multiplier in tenths).
CatalogExtras ==
    { [target_groups |-> <<"all">>],
      [revenue_for_transit |-> TRUE],
      [peak_multiplier |-> 15],
      [parking_hourly_rate |-> 2, parking_max_hours |-> 4] }

\* The maps callers pass when a few calls share one simulator.
AdjChoices == {Adj(0, 20, 2), Adj(40, 0, 0)}

ExtendedAdjustments ==
    {a @@ x : a \in AdjChoices \cup {Adj(0, 0, 0), Adj(0, 0, 5)}, x \in CatalogExtras}

GridInputs == GridAdjustments \cup ExtendedAdjustments

\* The simulators built on the edge parameter sets, and the maps their
\* callers pass.
EdgeSettings == {"zero_shares", "no_car", "no_transit", "extra_mode"}

EdgeInputs == {Adj(0, 0, 0), Adj(0, 20, 2), Adj(40, 0, 0), Adj(0, 100, 0), Adj(0, 0, 200)}

\* The named levers of an adjustment map.
NamedLevers(adj) == [k \in DOMAIN adj \cap Levers |-> adj[k]]

\* The "min" and "max" of the parameter_definitions of the five policies of
\* the catalog (peak_multiplier in tenths).
ParameterRanges ==
    [ congestion_price         |-> [min |-> 0, max |-> 50],
      peak_multiplier          |-> [min |-> 10, max |-> 30],
      pt_subsidy_percent       |-> [min |-> 0, max |-> 100],
      fuel_tax_percent         |-> [min |-> 0, max |-> 100],
      ev_purchase_subsidy      |-> [min |-> 0, max |-> 20000],
      ev_tax_reduction_percent |-> [min |-> 0, max |-> 100],
      parking_hourly_rate      |-> [min |-> 0, max |-> 20],
      parking_max_hours        |-> [min |-> 1, max |-> 24] ]

\* Policy.validate: the parameters that are below their "min" or above their
\* "max"; the policy is accepted when there is none.
Validate(parameters) ==
    {p \in DOMAIN parameters \cap DOMAIN ParameterRanges :
        \/ parameters[p] < ParameterRanges[p].min
        \/ parameters[p] > ParameterRanges[p].max}

\* Maps that hold only levers of the congestion, parking and EV policies
\* that no model reads.
UnreadLeverMaps ==
    { [peak_multiplier |-> 15],
      [parking_hourly_rate |-> 3],
      [parking_max_hours |-> 4],
      [ev_purchase_subsidy |-> 5000],
      [ev_tax_reduction_percent |-> 50],
      [parking_hourly_rate |-> 3, parking_max_hours |-> 4],
      [ev_purchase_subsidy |-> 5000, ev_tax_reduction_percent |-> 50],
      [peak_multiplier |-> 30, parking_hourly_rate |-> 20, parking_max_hours |-> 24,
       ev_purchase_subsidy |-> 20000, ev_tax_reduction_percent |-> 100] }

\* The three levers the models read, at the bottom, the middle and the top of
\* the range Policy.validate accepts.
RangeAdjustments ==
    {Adj(ft, pt, cp) : ft \in {0, 50, 100}, pt \in {0, 40, 100}, cp \in {0, 25, 50}}

\* Congestion prices beyond that range, at which the user cost per trip is a
\* few cents.
BeyondRangeAdjustments == {Adj(0, 0, 108), Adj(0, 0, 120)}

LeverInputs == UnreadLeverMaps \cup RangeAdjustments \cup BeyondRangeAdjustments

(***************************************************************************)
(* PolicySimulator.simulate as a process: each call runs the pipeline one  *)
(* model at a time on the shared ParameterSet.                             *)
(***************************************************************************)
MaxCalls == 3
Calls == 1..MaxCalls

VARIABLES
    setting,    \* the context the simulator was built for
    params,     \* the simulator's ParameterSet, shared by the five models
    inputs,     \* the adjustment maps callers may pass
    callers,    \* the calls that may be made
    adjMaps,    \* each caller's adjustment map, as the caller holds it
    pc,         \* each call's position in simulate
    frame       \* each call's local variables in simulate

simVars == <<setting, params, inputs, callers, adjMaps, pc, frame>>

PcOrder == <<"idle", "mode_share", "emissions", "cost", "equity", "efficiency", "score", "done">>

\* The position's place in PcOrder; a call that an exception ended
\* ("raised") has completed none of the steps.
PcIndex(p) == IF p = "raised" THEN 0 ELSE CHOOSE i \in 1..Len(PcOrder) : PcOrder[i] = p

\* The locals of a call that has not started; error is the exception that
\* ended the call, "none" while none has.
EmptyFrame ==
    [ policy |-> <<>>, mode_result |-> <<>>, emissions_result |-> <<>>,
      cost_result |-> <<>>, equity_result |-> <<>>, congestion_factor |-> <<>>,
      efficiency_result |-> <<>>, overall_score |-> 0, summary |-> <<>>,
      error |-> "none" ]

\* A variant of StoredShares: calculate leaves the projected shares, to two
\* decimals, in the ParameterSet.
StoredSharesShifted(ps, policy) ==
    LET projected == ModeShareCalculate(ps, policy).projected_shares
    IN  [ num |-> [m \in DOMAIN projected.num |-> RoundDec(projected.num[m], projected.den, 2)],
          den |-> 100 ]

\* What the writes of ModeShareModel.calculate leave in
\* self.params["mode_share"]: baseline and projected are copies, so the
\* stored shares are the ones that were there.
StoredShares(ps, policy) == ps.mode_share

\* Variants of the arguments: the baseline shares to the cost model, and the
\* user cost of the baseline to the equity model.
CostShareArgBaseline(ps, f) == ps.mode_share
EquityCostArgBaseline(ps, f) == CostCalculate(ps, ps.mode_share, <<>>).user_cost_per_trip

\* The arguments simulate hands to the models.
EmissionsShareArg(f) == f.mode_result.projected_shares
CostShareArg(ps, f) == f.mode_result.projected_shares
EquityCostArg(ps, f) == f.cost_result.user_cost_per_trip
EfficiencyShareArg(f) == f.mode_result.projected_shares

\* simulate(policy_adjustments) is entered: policy = policy_adjustments or {}.
Call(c, a) ==
    /\ c \in callers
    /\ pc[c] = "idle"
    /\ a \in inputs
    /\ adjMaps' = [adjMaps EXCEPT ![c] = a]
    /\ frame' = [frame EXCEPT ![c].policy = a]
    /\ pc' = [pc EXCEPT ![c] = "mode_share"]
    /\ UNCHANGED <<setting, params, inputs, callers>>

\* Step 1: mode_result = self.mode_share_model.calculate(policy).
ModeShareStep(c) ==
    /\ pc[c] = "mode_share"
    /\ IF ModeShareKeyError(params, adjMaps[c])
       THEN /\ frame' = [frame EXCEPT ![c].error = "KeyError"]
            /\ pc' = [pc EXCEPT ![c] = "raised"]
            /\ UNCHANGED params
       ELSE /\ frame' = [frame EXCEPT ![c].mode_result = ModeShareCalculate(params, adjMaps[c])]
            /\ params' = [params EXCEPT !.mode_share = StoredShares(params, adjMaps[c])]
            /\ pc' = [pc EXCEPT ![c] = "emissions"]
    /\ UNCHANGED <<setting, inputs, callers, adjMaps>>

\* Step 2: emissions_result = self.emissions_model.calculate(new_mode_share).
EmissionsStep(c) ==
    /\ pc[c] = "emissions"
    /\ frame' = [frame EXCEPT ![c].emissions_result =
                    EmissionsCalculate(params, EmissionsShareArg(frame[c]))]
    /\ pc' = [pc EXCEPT ![c] = "cost"]
    /\ UNCHANGED <<setting, params, inputs, callers, adjMaps>>

\* Step 3: cost_result = self.cost_model.calculate(new_mode_share, policy).
CostStep(c) ==
    /\ pc[c] = "cost"
    /\ IF CostKeyError(params, CostShareArg(params, frame[c]))
       THEN /\ frame' = [frame EXCEPT ![c].error = "KeyError"]
            /\ pc' = [pc EXCEPT ![c] = "raised"]
       ELSE /\ frame' = [frame EXCEPT ![c].cost_result =
                           CostCalculate(params, CostShareArg(params, frame[c]), adjMaps[c])]
            /\ pc' = [pc EXCEPT ![c] = "equity"]
    /\ UNCHANGED <<setting, params, inputs, callers, adjMaps>>

\* Step 4: equity_result = self.equity_model.calculate(user_cost_per_trip,
\* new_mode_share, policy).
EquityStep(c) ==
    /\ pc[c] = "equity"
    /\ frame' = [frame EXCEPT ![c].equity_result =
                    EquityCalculate(params, EquityCostArg(params, frame[c]),
                                    frame[c].mode_result.projected_shares, adjMaps[c])]
    /\ pc' = [pc EXCEPT ![c] = "efficiency"]
    /\ UNCHANGED <<setting, params, inputs, callers, adjMaps>>

\* Step 5: the congestion factor from the car share change, then
\* efficiency_result = self.efficiency_model.calculate(new_mode_share, factor).
EfficiencyStep(c) ==
    /\ pc[c] = "efficiency"
    /\ IF EfficiencyKeyError(params, EfficiencyShareArg(frame[c]))
       THEN /\ frame' = [frame EXCEPT
                           ![c].congestion_factor =
                               CongestionFactor(params, frame[c].mode_result.projected_shares),
                           ![c].error = "KeyError"]
            /\ pc' = [pc EXCEPT ![c] = "raised"]
       ELSE /\ frame' = [frame EXCEPT
                           ![c].congestion_factor =
                               CongestionFactor(params, frame[c].mode_result.projected_shares),
                           ![c].efficiency_result =
                               EfficiencyCalculate(params, EfficiencyShareArg(frame[c]),
                                   CongestionFactor(params, frame[c].mode_result.projected_shares))]
            /\ pc' = [pc EXCEPT ![c] = "score"]
    /\ UNCHANGED <<setting, params, inputs, callers, adjMaps>>

\* Step 6: the overall score and the summary, and the SimulationResult is returned.
ScoreStep(c) ==
    /\ pc[c] = "score"
    /\ frame' = [frame EXCEPT
                    ![c].overall_score =
                        CalculateOverallScore(frame[c].emissions_result, frame[c].cost_result,
                                              frame[c].equity_result, frame[c].efficiency_result),
                    ![c].summary =
                        GenerateSummary(frame[c].emissions_result, frame[c].cost_result,
                                        frame[c].equity_result, frame[c].efficiency_result)]
    /\ pc' = [pc EXCEPT ![c] = "done"]
    /\ UNCHANGED <<setting, params, inputs, callers, adjMaps>>

\* The SimulationResult a finished call returned.
ResultOf(f) ==
    [ emissions     |-> f.emissions_result,
      cost          |-> f.cost_result,
      equity        |-> f.equity_result,
      efficiency    |-> f.efficiency_result,
      mode_share    |-> f.mode_result,
      overall_score |-> f.overall_score,
      summary       |-> f.summary ]

(***************************************************************************)
(* ModeShareModel.calculate as a process: one call, statement by statement *)
(* (the two loops are one step each), on a model built on a ParameterSet   *)
(* that holds every mode of price_changes.  The caller writes the lever    *)
(* values in 1/msUnit of their units.                                      *)
(***************************************************************************)
VARIABLES
    msSetting,      \* the ParameterSet the model was built on, by name
    msUnit,         \* the resolution of the lever values of the call
    msPolicy,       \* policy_adjustments
    msPc,           \* the position in calculate
    msBaseline,     \* baseline
    msPriceChanges, \* price_changes
    msProjected,    \* projected
    msTotal,        \* total, as a reduced fraction
    msShift         \* shift

msVars == <<msSetting, msUnit, msPolicy, msPc, msBaseline, msPriceChanges,
            msProjected, msTotal, msShift>>

\* A variant of LoopOrder: the cross-elasticity loop runs first.
LoopOrderCrossFirst == <<"start", "cross", "own", "normalize", "round", "shift", "returned">>

\* The positions of calculate in the order of its statements.
LoopOrder == <<"start", "own", "cross", "normalize", "round", "shift", "returned">>

MsIndex(p) == CHOOSE i \in 1..Len(LoopOrder) : LoopOrder[i] = p

\* The position after p.
MsAfter(p) == LoopOrder[MsIndex(p) + 1]

\* The shares of `projected` for the modes whose price changed and that the
\* own-price loop therefore assigns; every other mode keeps the share it has.
OwnAssign(baseline, projected, price_changes, unit) ==
    LET own == OwnPriceStepAt(baseline, price_changes, unit)
    IN  Lowest([ num |-> [ m \in DOMAIN projected.num |->
                             IF Get(price_changes, m) # 0
                             THEN own.num[m] * projected.den
                             ELSE projected.num[m] * own.den ],
                 den |-> own.den * projected.den ])

\* policy = policy_adjustments or {}; baseline and projected are copies of
\* the ParameterSet's shares; price_changes.  Every ParameterSet of
\* CalcInputs carries the four modes of price_changes, so no lookup fails.
MsStart ==
    /\ msPc = "start"
    /\ msBaseline' = ParamsOf(msSetting).mode_share
    /\ msProjected' = ParamsOf(msSetting).mode_share
    /\ msPriceChanges' = PriceChanges(msPolicy)
    /\ msPc' = MsAfter("start")
    /\ UNCHANGED <<msSetting, msUnit, msPolicy, msTotal, msShift>>

\* The own-price loop.
MsOwnLoop ==
    /\ msPc = "own"
    /\ msProjected' = OwnAssign(msBaseline, msProjected, msPriceChanges, msUnit)
    /\ msPc' = MsAfter("own")
    /\ UNCHANGED <<msSetting, msUnit, msPolicy, msBaseline, msPriceChanges, msTotal, msShift>>

\* The cross-elasticity loop.
MsCrossLoop ==
    /\ msPc = "cross"
    /\ msProjected' = CrossPriceStepAt(msProjected, msPriceChanges, msUnit)
    /\ msPc' = MsAfter("cross")
    /\ UNCHANGED <<msSetting, msUnit, msPolicy, msBaseline, msPriceChanges, msTotal, msShift>>

\* total = sum(projected.values()) and the renormalisation under its guard.
MsNormalize ==
    /\ msPc = "normalize"
    /\ msTotal' = Frac(SumNum(msProjected), msProjected.den)
    /\ msProjected' = Normalize(msProjected)
    /\ msPc' = MsAfter("normalize")
    /\ UNCHANGED <<msSetting, msUnit, msPolicy, msBaseline, msPriceChanges, msShift>>

\* projected = {k: round(v, 4)}.
MsRound ==
    /\ msPc = "round"
    /\ msProjected' = RoundShares(msProjected)
    /\ msPc' = MsAfter("round")
    /\ UNCHANGED <<msSetting, msUnit, msPolicy, msBaseline, msPriceChanges, msTotal, msShift>>

\* shift, and the ModeShareResult is returned.
MsShift ==
    /\ msPc = "shift"
    /\ msShift' = ShiftPercentage(msBaseline, msProjected)
    /\ msPc' = MsAfter("shift")
    /\ UNCHANGED <<msSetting, msUnit, msPolicy, msBaseline, msPriceChanges, msProjected, msTotal>>

\* The ModeShareResult the call returned.
MsResult ==
    [ baseline_shares |-> msBaseline,
      projected_shares |-> msProjected,
      shift_percentage |-> msShift ]

\* The inputs of the calculate process: a ParameterSet by name, the
\* resolution of the lever values and the adjustment map.  Whole-unit maps
\* on every ParameterSet of four modes, and on the default ParameterSet a
\* fuel tax alone in steps of a fifth of a percent from 0 to 100.
CalcSettings == Settings \cup (EdgeSettings \ {"extra_mode"})

CalcAdjustments ==
    {Adj(ft, pt, cp) : ft \in {0, 40}, pt \in {0, 1, 20, 100}, cp \in {0, 1, 2, 50, 150}}

FuelTaxFifths == {[fuel_tax_percent |-> k] : k \in 0..500}

CalcInputs ==
    {<<s, 1, a>> : s \in CalcSettings, a \in CalcAdjustments}
        \cup {<<"default", 5, a>> : a \in FuelTaxFifths}

(***************************************************************************)
(* EquityModel._calculate_gini and the two roundings EquityModel.calculate *)
(* makes of what it returns, as a process on a list of burdens.            *)
(***************************************************************************)
VARIABLES
    giniValues,     \* values, the list passed to _calculate_gini
    giniPc,         \* the position: "call", "returned", "scored"
    giniReturn,     \* what _calculate_gini returned, a fraction
    giniIndex,      \* gini_index = round(gini, 3), in thousandths
    equityScore     \* equity_score = round(1 - gini, 3), in thousandths

giniVars == <<giniValues, giniPc, giniReturn, giniIndex, equityScore>>

\* The lists of burdens: at most MaxGroups values out of BurdenLevels.
MaxGroups == 5

BurdenLevels == {0, 1, 3, 10923}

RECURSIVE BurdenLists(_)
BurdenLists(n) ==
    IF n = 0 THEN {<<>>}
    ELSE LET shorter == BurdenLists(n - 1)
         IN  shorter \cup {Append(l, v) : l \in {x \in shorter : Len(x) = n - 1},
                                          v \in BurdenLevels}

\* Python floats, with MantissaBits bits of mantissa in the place of the 53
\* of a double: a float is a reduced fraction m * 2^e with |m| < 2^MantissaBits
\* and every operation returns the float nearest to its exact result, ties to
\* the even mantissa.  The burden lists are lists of such floats.
MantissaBits == 14

\* The number of times 2 divides x, for x > 0.
TrailingZeros(x) == CHOOSE t \in 0..30 : x % (2^(t + 1)) # 0

\* a / d times 2^k and a / d over 2^k, as a pair: the other part is halved as
\* long as it is even, so that neither part grows more than it must.
ScaleUp(a, d, k) ==
    LET t == Min(k, TrailingZeros(d))
    IN  [a |-> a * 2^(k - t), d |-> d \div 2^t]

ScaleDown(a, d, k) ==
    LET t == Min(k, TrailingZeros(a))
    IN  [a |-> a \div 2^t, d |-> d * 2^(k - t)]

\* The float nearest to a / d, for a > 0 and d > 0: a / d is scaled by the
\* power of two that brings it into 2^(MantissaBits-1) .. 2^MantissaBits, rounded
\* to an integer mantissa, and scaled back.
FlRoundPos(a, d) ==
    IF a \div d >= 2^MantissaBits
    THEN LET k == CHOOSE e \in 1..30 :
                      LET s == ScaleDown(a, d, e) IN s.a \div s.d < 2^MantissaBits
             s == ScaleDown(a, d, k)
         IN  Frac(RoundHalfEvenOn(s.a, s.d, 0) * 2^k, 1)
    ELSE IF a \div d < 2^(MantissaBits - 1)
    THEN LET k == CHOOSE e \in 1..30 :
                      LET s == ScaleUp(a, d, e) IN s.a \div s.d >= 2^(MantissaBits - 1)
             s == ScaleUp(a, d, k)
         IN  Frac(RoundHalfEvenOn(s.a, s.d, 0), 2^k)
    ELSE Frac(RoundHalfEvenOn(a, d, 0), 1)

\* The float nearest to the fraction f.
FlRound(f) ==
    IF f.n = 0 THEN Frac(0, 1)
    ELSE IF f.n > 0 THEN FlRoundPos(f.n, f.d)
    ELSE LET r == FlRoundPos(-f.n, f.d) IN Frac(-r.n, r.d)

FlAdd(x, y) == FlRound(Frac(x.n * y.d + y.n * x.d, x.d * y.d))

FlSub(x, y) == FlRound(Frac(x.n * y.d - y.n * x.d, x.d * y.d))

FlDiv(x, y) == FlRound(Frac(x.n * y.d, x.d * y.n))

\* sum(values) of floats: 0 + values[1] + ... in order.
RECURSIVE FlSum(_, _)
FlSum(values, i) ==
    IF i = 0 THEN Frac(0, 1) ELSE FlAdd(FlSum(values, i - 1), values[i])

\* np.cumsum(values) of floats.
RECURSIVE FlCumSum(_, _)
FlCumSum(values, i) ==
    IF i = 0 THEN <<>>
    ELSE IF i = 1 THEN <<values[1]>>
    ELSE LET prev == FlCumSum(values, i - 1)
         IN  Append(prev, FlAdd(prev[i - 1], values[i]))

\* The burdens as floats.
AsFloats(values) == [i \in 1..Len(values) |-> Frac(values[i], 1)]

\* A variant of GiniFloat with n in the place of n + 1.
GiniFloatWithoutPlusOne(values) ==
    LET sorted == AsFloats(Sorted(values))
        len    == Len(values)
    IN  IF len = 0 \/ FlSum(sorted, len).n = 0 THEN Frac(0, 1)
        ELSE LET cumsum == FlCumSum(sorted, len)
                 total  == FlSum(cumsum, len)
                 ratio  == FlDiv(Frac(2 * total.n, total.d), cumsum[len])
             IN  FlDiv(FlSub(Frac(len, 1), ratio), Frac(len, 1))

\* EquityModel._calculate_gini(values) in float arithmetic:
\* (n + 1 - 2 * sum(cumsum) / cumsum[-1]) / n with n = len(values);
\* 2 * sum(cumsum) is exact.
GiniFloat(values) ==
    LET sorted == AsFloats(Sorted(values))
        len    == Len(values)
    IN  IF len = 0 \/ FlSum(sorted, len).n = 0 THEN Frac(0, 1)
        ELSE LET cumsum == FlCumSum(sorted, len)
                 total  == FlSum(cumsum, len)
                 ratio  == FlDiv(Frac(2 * total.n, total.d), cumsum[len])
             IN  FlDiv(FlSub(Frac(len + 1, 1), ratio), Frac(len, 1))

\* gini = self._calculate_gini(burdens)
GiniCall ==
    /\ giniPc = "call"
    /\ giniReturn' = GiniFloat(giniValues)
    /\ giniPc' = "returned"
    /\ UNCHANGED <<giniValues, giniIndex, equityScore>>

\* equity_score = 1 - gini, and the roundings of the EquityResult.
EquityScoreStep ==
    /\ giniPc = "returned"
    /\ giniIndex' = RoundDec(giniReturn.n, giniReturn.d, 3)
    /\ equityScore' = LET score == FlSub(Frac(1, 1), giniReturn)
                      IN  RoundDec(score.n, score.d, 3)
    /\ giniPc' = "scored"
    /\ UNCHANGED <<giniValues, giniReturn>>

(***************************************************************************)
(* EfficiencyModel.calculate as a process: one call on a share map and a   *)
(* congestion factor the caller chooses.                                   *)
(***************************************************************************)
VARIABLES
    effShare,    \* the mode_share argument, [num, den]
    effFactor,   \* the congestion_factor argument, a fraction [n, d]
    effPc,       \* "none", "call" or "returned"
    effResult    \* the EfficiencyResult calculate returned

effVars == <<effShare, effFactor, effPc, effResult>>

\* Share maps with non-negative shares: the default baseline, each of three
\* modes alone, no trips at all, two other baselines, and a projected map
\* in ten-thousandths.
EfficiencyShares ==
    { DEFAULT_PARAMS.mode_share,
      [num |-> [private_car |-> 1, motorcycle |-> 0, public_transit |-> 0,
                walking_cycling |-> 0], den |-> 1],
      [num |-> [private_car |-> 0, motorcycle |-> 1, public_transit |-> 0,
                walking_cycling |-> 0], den |-> 1],
      [num |-> [private_car |-> 0, motorcycle |-> 0, public_transit |-> 1,
                walking_cycling |-> 0], den |-> 1],
      [num |-> [private_car |-> 0, motorcycle |-> 0, public_transit |-> 0,
                walking_cycling |-> 0], den |-> 1],
      DyadicParams.mode_share,
      NoCarParams.mode_share,
      [num |-> [private_car |-> 4407, motorcycle |-> 2524, public_transit |-> 2060,
                walking_cycling |-> 1010], den |-> 10000] }

\* Congestion factors from no congestion at all to five times the base time.
CongestionFactors ==
    { Frac(0, 1), Frac(1, 2), Frac(4, 5), Frac(9983, 10000), Frac(1, 1),
      Frac(10017, 10000), Frac(11, 10), Frac(3, 2), Frac(2, 1), Frac(5, 1) }

EfficiencyCall ==
    /\ effPc = "call"
    /\ effResult' = EfficiencyCalculate(DEFAULT_PARAMS, effShare, effFactor)
    /\ effPc' = "returned"
    /\ UNCHANGED <<effShare, effFactor>>

(***************************************************************************)
(* Policy catalog and scenarios (src/policies.py)                          *)
(***************************************************************************)
\* The parameters each policy class builds (peak_multiplier in tenths).
CongestionPricingPolicy(price_per_entry) ==
    [ id |-> "congestion_pricing",
      parameters |-> [congestion_price |-> price_per_entry, peak_multiplier |-> 15] ]

PublicTransitSubsidyPolicy(subsidy_percent, target_groups) ==
    [ id |-> "pt_subsidy",
      parameters |-> [ pt_subsidy_percent |-> subsidy_percent,
                       target_groups |-> IF target_groups = <<>> THEN <<"all">>
                                         ELSE target_groups ] ]

FuelTaxPolicy(tax_percent) ==
    [ id |-> "fuel_tax",
      parameters |-> [fuel_tax_percent |-> tax_percent, revenue_for_transit |-> TRUE] ]

EVIncentivePolicy ==
    [ id |-> "ev_incentive",
      parameters |-> [ev_purchase_subsidy |-> 5000, ev_tax_reduction_percent |-> 50] ]

ParkingManagementPolicy(hourly_rate) ==
    [ id |-> "parking_policy",
      parameters |-> [parking_hourly_rate |-> hourly_rate, parking_max_hours |-> 4] ]

\* ScenarioLibrary: the policy lists of the pre-built scenarios.
ScenarioLibrary ==
    [ baseline        |-> <<>>,
      green_transport |-> << CongestionPricingPolicy(8),
                             PublicTransitSubsidyPolicy(50, <<>>),
                             FuelTaxPolicy(30) >>,
      equity_focused  |-> << PublicTransitSubsidyPolicy(70,
                                 <<"low_income", "students", "elderly">>) >>,
      balanced        |-> << CongestionPricingPolicy(3),
                             PublicTransitSubsidyPolicy(25, <<>>),
                             ParkingManagementPolicy(2) >> ]

\* The policies scenarios are put together from: those of the library and
\* an EV incentive with its defaults.
PolicyChoices ==
    UNION {{ScenarioLibrary[s][i] : i \in 1..Len(ScenarioLibrary[s])} : s \in DOMAIN ScenarioLibrary}
        \cup {EVIncentivePolicy}

MaxPolicies == 3

RECURSIVE PolicyLists(_)
PolicyLists(n) ==
    IF n = 0 THEN {<<>>}
    ELSE LET shorter == PolicyLists(n - 1)
         IN  shorter \cup {Append(l, q) : l \in {x \in shorter : Len(x) = n - 1},
                                          q \in PolicyChoices}

VARIABLES
    policies,   \* the scenario's policies, as the scenario holds them
    built,      \* the policies as they were when the scenario was built
    combined,   \* the map get_combined_adjustments is filling
    merged,     \* how many policies the loop has merged
    spc         \* the position in get_combined_adjustments

scenVars == <<policies, built, combined, merged, spc>>

\* Policy.get_adjustments: a copy of the policy's parameters.
GetAdjustments(policy) == policy.parameters

\* A variant of dict.update that keeps the value a key already has.
DictUpdateKeepFirst(target, other) ==
    [k \in DOMAIN target \cup DOMAIN other |->
        IF k \in DOMAIN target THEN target[k] ELSE other[k]]

\* dict.update: every key of other is set in target to other's value.
DictUpdate(target, other) ==
    [k \in DOMAIN target \cup DOMAIN other |->
        IF k \in DOMAIN other THEN other[k] ELSE target[k]]

\* PolicyScenario(policies = ps) is built.
NewScenario(ps) ==
    /\ spc = "none"
    /\ policies' = ps
    /\ built' = ps
    /\ spc' = "built"
    /\ UNCHANGED <<combined, merged>>

\* get_combined_adjustments is entered: combined = {}.
EnterCombined ==
    /\ spc = "built"
    /\ combined' = <<>>
    /\ merged' = 0
    /\ spc' = "merging"
    /\ UNCHANGED <<policies, built>>

\* One turn of the loop: combined.update(policy.get_adjustments()).
UpdateStep ==
    /\ spc = "merging"
    /\ merged < Len(policies)
    /\ combined' = DictUpdate(combined, GetAdjustments(policies[merged + 1]))
    /\ merged' = merged + 1
    /\ UNCHANGED <<policies, built, spc>>

\* The loop is over: return combined.
ReturnCombined ==
    /\ spc = "merging"
    /\ merged = Len(policies)
    /\ spc' = "returned"
    /\ UNCHANGED <<policies, built, combined, merged>>

(***************************************************************************)
(* PolicySimAgent (src/agent.py): one agent built on the default context.  *)
(* A public operation runs one stage at a time; an AgentAction is          *)
(* [state, action], the action a tuple of words; of a SimulationResult the *)
(* agent's results keep the fields of ResultDigest; a results of <<>> is   *)
(* None.  A simulation is a function of its adjustment map and of the      *)
(* ParameterSet, which no operation changes: simulator holds the result of *)
(* simulate for each map the operations pass to it.                        *)
(***************************************************************************)
VARIABLES
    state,        \* self.state, a value of AgentState
    action_log,   \* self.action_log
    agCall,       \* the operation under way or returned last, with its arguments
    agPc,         \* "idle", "analyzing", "running", "explaining", "returned", "raised"
    agLocals,     \* the locals of the operation: policy, scenarios, results, ...
    simulations,  \* the simulate calls the operation has made
    simulator,    \* self.simulator.simulate: the result of each adjustment map
    response      \* the AgentResponse the operation returned

agentVars == <<state, action_log, agCall, agPc, agLocals, simulations, simulator, response>>

AgentState ==
    { "idle", "analyzing_request", "selecting_models", "running_simulation",
      "generating_explanation", "complete", "error" }

\* _log_action: an AgentAction with the state as it is at the call.
LogAction(log, st, action) == Append(log, [state |-> st, action |-> action])

\* A variant of SetState that logs the change before the entries of the log.
SetStateLoggedFirst(log, st) ==
    <<[state |-> st, action |-> <<"State changed to", st>>]>> \o log

\* _set_state: what the log holds once the state st is set.
SetState(log, st) == LogAction(log, st, <<"State changed to", st>>)

\* The keyword parameters of the constructors PolicyRegistry._policies holds.
ConstructorParameters ==
    [ congestion_pricing |-> {"price_per_entry", "peak_multiplier"},
      pt_subsidy         |-> {"subsidy_percent", "target_groups"},
      fuel_tax           |-> {"tax_percent", "use_for_transit"},
      ev_incentive       |-> {"purchase_subsidy", "tax_reduction_percent"},
      parking_policy     |-> {"hourly_rate", "max_hours"} ]

KwOr(kwargs, k, default) == IF k \in DOMAIN kwargs THEN kwargs[k] ELSE default

\* cls._policies[policy_id](**kwargs): the constructor's defaults, each
\* replaced by the keyword argument that sets it.
BuildPolicy(policy_id, kwargs) ==
    CASE policy_id = "congestion_pricing" ->
           [CongestionPricingPolicy(KwOr(kwargs, "price_per_entry", 5))
               EXCEPT !.parameters.peak_multiplier = KwOr(kwargs, "peak_multiplier", 15)]
      [] policy_id = "pt_subsidy" ->
           PublicTransitSubsidyPolicy(KwOr(kwargs, "subsidy_percent", 30),
                                      KwOr(kwargs, "target_groups", <<>>))
      [] policy_id = "fuel_tax" ->
           [FuelTaxPolicy(KwOr(kwargs, "tax_percent", 20))
               EXCEPT !.parameters.revenue_for_transit = KwOr(kwargs, "use_for_transit", TRUE)]
      [] policy_id = "ev_incentive" ->
           [EVIncentivePolicy
               EXCEPT !.parameters.ev_purchase_subsidy = KwOr(kwargs, "purchase_subsidy", 5000),
                      !.parameters.ev_tax_reduction_percent =
                          KwOr(kwargs, "tax_reduction_percent", 50)]
      [] policy_id = "parking_policy" ->
           [ParkingManagementPolicy(KwOr(kwargs, "hourly_rate", 3))
               EXCEPT !.parameters.parking_max_hours = KwOr(kwargs, "max_hours", 4)]

\* PolicyRegistry.get_policy: ValueError for an id the registry does not
\* hold, TypeError for a keyword the constructor does not accept.
GetPolicy(policy_id, kwargs) ==
    IF policy_id \notin DOMAIN ConstructorParameters
    THEN [error |-> "ValueError", policy |-> <<>>]
    ELSE IF ~(DOMAIN kwargs \subseteq ConstructorParameters[policy_id])
    THEN [error |-> "TypeError", policy |-> <<>>]
    ELSE [error |-> "none", policy |-> BuildPolicy(policy_id, kwargs)]

\* A variant of Caught: the handler catches ValueError and nothing else.
CaughtValueErrorOnly(exception) == exception = "ValueError"

\* `except Exception`: every exception the operations raise is caught.
Caught(exception) == TRUE

\* PolicyScenario.get_combined_adjustments, from the first policy to the last.
RECURSIVE CombinedAdjustments(_)
CombinedAdjustments(ps) ==
    IF ps = <<>> THEN <<>>
    ELSE DictUpdate(CombinedAdjustments(SubSeq(ps, 1, Len(ps) - 1)),
                    GetAdjustments(ps[Len(ps)]))

\* The fields of a SimulationResult the agent's results are read for.
ResultDigest(r) ==
    [ overall_score |-> r.overall_score,
      emissions     |-> r.emissions.total_co2_kg_per_day,
      user_cost     |-> r.cost.user_cost_per_trip,
      govt_cost     |-> r.cost.government_cost_per_year,
      equity        |-> r.equity.equity_score ]


\* What the language model answers to interpret_user_policy_request, as
\* json.loads reads it; "invalid" is an answer that is not JSON (the text
\* _call_llm returns when the request fails is one).
Replies ==
    { [json |-> "invalid"],
      [json |-> "null"],
      [json |-> "array"],
      [json |-> "object", value |-> <<>>],
      [json |-> "object", value |-> [policy_type |-> "congestion_pricing", congestion_price |-> 5]],
      [json |-> "object", value |-> [policy_type |-> "pt_subsidy", pt_subsidy_percent |-> 30]],
      [json |-> "object", value |-> [policy_type |-> "congestion_pricing", pt_subsidy_percent |-> 30]],
      [json |-> "object", value |-> [policy_type |-> "teleport"]],
      [json |-> "object", value |-> [pt_subsidy_percent |-> 20]] }

\* interpret_user_policy_request: json.loads(response), {} when it fails.
InterpretUserPolicyRequest(reply) ==
    IF reply.json = "invalid" THEN [json |-> "object", value |-> <<>>] ELSE reply

\* `not interpreted`: None and the empty dict are falsy.
Falsy(interpreted) ==
    \/ interpreted.json = "null"
    \/ interpreted.json = "object" /\ DOMAIN interpreted.value = {}

\* param_mapping of natural_language_query.
param_mapping ==
    [ pt_subsidy_percent  |-> "subsidy_percent",
      congestion_price    |-> "price_per_entry",
      fuel_tax_percent    |-> "tax_percent",
      parking_hourly_rate |-> "hourly_rate" ]

MappedKey(k) == IF k \in DOMAIN param_mapping THEN param_mapping[k] ELSE k

\* params of natural_language_query: the interpreted keys but policy_type,
\* under their mapped names.
MappedParams(interpreted) ==
    LET keys == DOMAIN interpreted \ {"policy_type"}
    IN  [mk \in {MappedKey(k) : k \in keys} |->
            interpreted[CHOOSE k \in keys : MappedKey(k) = mk]]

\* test_policies of get_policy_recommendations.
test_policies ==
    << [name |-> "Low Congestion Price",    params |-> Adj(0, 0, 2)],
       [name |-> "Medium Congestion Price", params |-> Adj(0, 0, 5)],
       [name |-> "High Congestion Price",   params |-> Adj(0, 0, 10)],
       [name |-> "Low PT Subsidy",          params |-> Adj(0, 20, 0)],
       [name |-> "Medium PT Subsidy",       params |-> Adj(0, 40, 0)],
       [name |-> "High PT Subsidy",         params |-> Adj(0, 60, 0)],
       [name |-> "Low Fuel Tax",            params |-> Adj(10, 0, 0)],
       [name |-> "High Fuel Tax",           params |-> Adj(30, 0, 0)],
       [name |-> "Combined Moderate",       params |-> Adj(0, 25, 3)],
       [name |-> "Combined Aggressive",     params |-> Adj(20, 50, 8)] >>

\* A yearly total [hi, lo] (hundredths, hi * 1000 + lo) is above amount
\* whole currency units.
TotalAbove(total, amount) ==
    \/ total.hi > amount \div 10
    \/ total.hi = amount \div 10 /\ total.lo > (amount % 10) * 100

\* A variant of OverBudget: a budget of 0 is a budget.
OverBudgetZeroIsBudget(call, govt_cost) ==
    /\ "budget_constraint" \in DOMAIN call
    /\ TotalAbove(govt_cost, call.budget_constraint)

\* `budget_constraint and govt_cost > budget_constraint`: no budget is given
\* when the argument is None, and 0 is falsy as well.
OverBudget(call, govt_cost) ==
    /\ "budget_constraint" \in DOMAIN call
    /\ call.budget_constraint # 0
    /\ TotalAbove(govt_cost, call.budget_constraint)

\* The calls a user of the agent makes.
PolicyTypes == DOMAIN ConstructorParameters \cup {"road_diet"}

KeywordArguments == {<<>>, [price_per_entry |-> 10], [toll |-> 5]}

AnalyzeCalls ==
    { [op |-> "analyze_policy", policy_type |-> t, parameters |-> p, explain |-> e] :
          t \in PolicyTypes, p \in KeywordArguments, e \in BOOLEAN }

\* custom_scenarios: none, a PolicyScenario, and a PolicyScenario followed by
\* an object that is none (a dict of the same content).
CustomScenarios ==
    { <<>>,
      <<[type |-> "PolicyScenario", name |-> "ev_only", policies |-> <<EVIncentivePolicy>>]>>,
      <<[type |-> "PolicyScenario", name |-> "ev_only", policies |-> <<EVIncentivePolicy>>],
        [type |-> "dict", name |-> "fuel", policies |-> <<FuelTaxPolicy(20)>>]>> }

ScenarioNames ==
    {<<>>, <<"baseline">>, <<"green_transport", "equity_focused">>, <<"balanced", "nope">>}

CompareCalls ==
    { [op |-> "compare_scenarios", scenario_names |-> n, custom_scenarios |-> s, explain |-> e] :
          n \in ScenarioNames, s \in CustomScenarios, e \in BOOLEAN }

QueryCalls == {[op |-> "natural_language_query"]}

Targets == {"emissions", "cost", "equity", "efficiency"}

\* Budgets: none, zero, one currency unit, one between the costs of the
\* tested policies, and a negative one.
Budgets == {0, 1, 100000000, -1}

RecommendationCalls ==
    {[op |-> "get_policy_recommendations", target |-> t] : t \in Targets}
        \cup {[op |-> "get_policy_recommendations", target |-> t, budget_constraint |-> b] :
                 t \in Targets, b \in Budgets}

\* ScenarioLibrary.get_<name>(): the scenario, under the name of its getter.
LibraryScenario(name) ==
    [type |-> "PolicyScenario", name |-> name, policies |-> ScenarioLibrary[name]]

\* self.simulator.simulate(adjustments).
AgentSimulate(adjustments) == simulator[adjustments]

\* The replies that are objects, and the keyword arguments
\* natural_language_query hands to analyze_policy for those that name a
\* policy_type.
ObjectReplies == {r \in Replies : r.json = "object"}

DelegatedArguments ==
    {MappedParams(r.value) : r \in {q \in ObjectReplies : "policy_type" \in DOMAIN q.value}}

\* The adjustment maps the operations simulate on the calls and replies
\* above: the baseline's, those of the policies analyze_policy builds, of the
\* scenarios compare_scenarios gathers, of the interpreted parameters, and
\* of test_policies.
SimulatedMaps ==
    {<<>>}
        \cup {GetAdjustments(BuildPolicy(tk[1], tk[2])) :
                 tk \in {x \in (DOMAIN ConstructorParameters)
                                 \X (KeywordArguments \cup DelegatedArguments) :
                             DOMAIN x[2] \subseteq ConstructorParameters[x[1]]}}
        \cup {CombinedAdjustments(ScenarioLibrary[n]) : n \in DOMAIN ScenarioLibrary}
        \cup UNION {{CombinedAdjustments(s[i].policies) : i \in DOMAIN s} :
                       s \in CustomScenarios}
        \cup {r.value : r \in {q \in ObjectReplies : "policy_type" \notin DOMAIN q.value}}
        \cup {test_policies[n].params : n \in 1..Len(test_policies)}

\* PolicySimulator(self.params) of an agent on the default context.
AgentSimulator ==
    [adjustments \in SimulatedMaps |->
        ResultDigest(Simulate(get_context_params("default"), adjustments))]

\* The entry of results for the n-th of test_policies: its name, its params
\* and, of the SimulationResult, the fields of ResultDigest under the same
\* names.
TestedPolicy(n) ==
    [name |-> test_policies[n].name, params |-> test_policies[n].params]
        @@ AgentSimulate(test_policies[n].params)

TestedPolicies == [n \in 1..Len(test_policies) |-> TestedPolicy(n)]

\* results after the loop: the entries of the policies the budget check
\* does not skip, in the order of test_policies.
TestedWithin(call) ==
    SelectSeq(TestedPolicies, LAMBDA entry : ~OverBudget(call, entry.govt_cost))

\* The sort key of the target puts x strictly before y.
SortsBefore(x, y, target) ==
    CASE target = "emissions" -> x.emissions < y.emissions
      [] target = "cost"   -> x.user_cost < y.user_cost
      [] target = "equity" -> x.equity > y.equity
      [] OTHER             -> x.overall_score > y.overall_score

\* list.sort(key = ...): stable, entries of equal keys keep their order.
SortByTarget(entries, target) ==
    LET Precedes(j, i) ==
            \/ SortsBefore(entries[j], entries[i], target)
            \/ ~SortsBefore(entries[i], entries[j], target) /\ j < i
        Place(i) == 1 + Cardinality({j \in 1..Len(entries) : Precedes(j, i)})
    IN  [r \in 1..Len(entries) |->
            entries[CHOOSE i \in 1..Len(entries) : Place(i) = r]]

NoResponse == <<>>

\* The first entries of the log of an operation: the state change and the
\* request the operation logs.
FirstEntries(op) ==
    LET changed == SetState(<<>>, "analyzing_request")
    IN  CASE op = "analyze_policy" ->
               LogAction(changed, "analyzing_request", <<"Received policy analysis request">>)
          [] op = "natural_language_query" ->
               LogAction(changed, "analyzing_request", <<"Received natural language query">>)
          [] op = "get_policy_recommendations" ->
               LogAction(changed, "analyzing_request", <<"Generating policy recommendations">>)
          [] OTHER -> changed

\* An operation is entered: the log is reset and the state set.
AgentCall(call) ==
    /\ agPc \in {"idle", "returned"}
    /\ agCall' = call
    /\ action_log' = FirstEntries(call.op)
    /\ state' = "analyzing_request"
    /\ agPc' = "analyzing"
    /\ agLocals' = <<>>
    /\ simulations' = 0
    /\ response' = NoResponse
    /\ UNCHANGED simulator

\* The handler of an operation: the state is set to ERROR (analyze_policy
\* logs the error as well) and a response without results is returned; an
\* exception the handler does not catch leaves the operation.
Handle(exception, log) ==
    IF Caught(exception)
    THEN LET changed == SetState(log, "error")
             final   == IF agCall.op = "analyze_policy"
                        THEN LogAction(changed, "error", <<"Error occurred">>)
                        ELSE changed
         IN  /\ state' = "error"
             /\ action_log' = final
             /\ response' = [success |-> FALSE, results |-> <<>>, actions_taken |-> final]
             /\ agPc' = "returned"
    ELSE /\ agPc' = "raised"
         /\ UNCHANGED <<state, action_log, response>>

\* The operation returns its results in the state COMPLETE.
Complete(results, log) ==
    LET final == SetState(log, "complete")
    IN  /\ state' = "complete"
        /\ action_log' = final
        /\ response' = [success |-> TRUE, results |-> results, actions_taken |-> final]
        /\ agPc' = "returned"

\* analyze_policy, step 2: the policy is created.
CreatePolicy ==
    /\ agPc = "analyzing"
    /\ agCall.op = "analyze_policy"
    /\ LET got == GetPolicy(agCall.policy_type, agCall.parameters)
       IN  IF got.error # "none"
           THEN /\ Handle(got.error, action_log)
                /\ UNCHANGED <<agLocals>>
           ELSE /\ agLocals' = [policy |-> got.policy]
                /\ action_log' = SetState(LogAction(action_log, state,
                                                    <<"Created policy instance">>),
                                          "running_simulation")
                /\ state' = "running_simulation"
                /\ agPc' = "running"
                /\ UNCHANGED response
    /\ UNCHANGED <<agCall, simulations, simulator>>

\* The scenarios compare_scenarios gathers: the library's scenarios of the
\* names it knows, then the custom ones, and three of the library when there
\* is none.
GatheredScenarios(call) ==
    LET known  == SelectSeq(call.scenario_names, LAMBDA n : n \in DOMAIN ScenarioLibrary)
        named  == [i \in 1..Len(known) |-> LibraryScenario(known[i])]
        all    == named \o call.custom_scenarios
    IN  IF all = <<>>
        THEN << LibraryScenario("baseline"), LibraryScenario("green_transport"),
                LibraryScenario("balanced") >>
        ELSE all

\* compare_scenarios: the scenarios are gathered and their names logged;
\* reading the name of an object that is no PolicyScenario raises
\* AttributeError.
PrepareScenarios ==
    /\ agPc = "analyzing"
    /\ agCall.op = "compare_scenarios"
    /\ LET scenarios == GatheredScenarios(agCall)
       IN  IF \E i \in 1..Len(scenarios) : scenarios[i].type # "PolicyScenario"
           THEN /\ Handle("AttributeError", action_log)
                /\ UNCHANGED agLocals
           ELSE /\ agLocals' = [scenarios |-> scenarios]
                /\ action_log' = SetState(LogAction(action_log, state,
                                                    <<"Prepared scenarios for comparison">>),
                                          "running_simulation")
                /\ state' = "running_simulation"
                /\ agPc' = "running"
                /\ UNCHANGED response
    /\ UNCHANGED <<agCall, simulations, simulator>>

\* natural_language_query, step 1: the query is interpreted.  Without an
\* interpretation the operation returns at once; with a policy_type it
\* returns what analyze_policy returns, which starts by resetting the log.
InterpretQuery(reply) ==
    /\ agPc = "analyzing"
    /\ agCall.op = "natural_language_query"
    /\ LET interpreted == InterpretUserPolicyRequest(reply)
           logged      == LogAction(action_log, state, <<"Interpreted query">>)
       IN  IF Falsy(interpreted)
           THEN /\ action_log' = logged
                /\ response' = [success |-> TRUE, results |-> <<>>, actions_taken |-> logged]
                /\ agPc' = "returned"
                /\ UNCHANGED <<state, agCall, agLocals>>
           ELSE IF interpreted.json # "object"
           THEN /\ Handle("AttributeError", logged)
                /\ UNCHANGED <<agCall, agLocals>>
           ELSE IF "policy_type" \in DOMAIN interpreted.value
           THEN /\ agCall' = [ op |-> "analyze_policy",
                               policy_type |-> interpreted.value.policy_type,
                               parameters |-> MappedParams(interpreted.value),
                               explain |-> TRUE ]
                /\ action_log' = FirstEntries("analyze_policy")
                /\ state' = "analyzing_request"
                /\ agPc' = "analyzing"
                /\ UNCHANGED <<agLocals, response>>
           ELSE /\ agLocals' = [interpreted |-> interpreted.value]
                /\ action_log' = SetState(logged, "running_simulation")
                /\ state' = "running_simulation"
                /\ agPc' = "running"
                /\ UNCHANGED <<agCall, response>>
    /\ UNCHANGED <<simulations, simulator>>

\* get_policy_recommendations: the request is logged, the tests begin.
StartTests ==
    /\ agPc = "analyzing"
    /\ agCall.op = "get_policy_recommendations"
    /\ action_log' = SetState(action_log, "running_simulation")
    /\ state' = "running_simulation"
    /\ agPc' = "running"
    /\ UNCHANGED <<agCall, agLocals, simulations, simulator, response>>

\* The results of compare_scenarios, one simulation per scenario.
ScenarioResults(scenarios) ==
    [i \in 1..Len(scenarios) |->
        LET adjustments == CombinedAdjustments(scenarios[i].policies)
            sim_result  == AgentSimulate(adjustments)
        IN  [ name          |-> scenarios[i].name,
              adjustments   |-> adjustments,
              overall_score |-> sim_result.overall_score,
              emissions     |-> sim_result.emissions,
              user_cost     |-> sim_result.user_cost,
              equity_score  |-> sim_result.equity ]]

RECURSIVE LogEach(_, _, _)
LogEach(log, st, actions) ==
    IF actions = <<>> THEN log
    ELSE LogAction(LogEach(log, st, SubSeq(actions, 1, Len(actions) - 1)),
                   st, actions[Len(actions)])

\* The results of analyze_policy.
AnalysisResults(baseline, with_policy, policy) ==
    [ baseline    |-> baseline,
      with_policy |-> with_policy,
      policy_info |-> policy,
      improvement |-> [score_change |-> with_policy.overall_score - baseline.overall_score] ]

\* The results of get_policy_recommendations: top_3 = results[:3].
RecommendationResults(tested, baseline) ==
    [ recommendations |-> SubSeq(tested, 1, Min(3, Len(tested))),
      all_tested      |-> tested,
      baseline_score  |-> baseline.overall_score ]

\* The results of the operation under way.
SimulationResults ==
    CASE agCall.op = "analyze_policy" ->
           AnalysisResults(AgentSimulate(<<>>),
                           AgentSimulate(GetAdjustments(agLocals.policy)),
                           agLocals.policy)
      [] agCall.op = "compare_scenarios" ->
           [scenarios |-> ScenarioResults(agLocals.scenarios)]
      [] agCall.op = "natural_language_query" ->
           [ baseline           |-> AgentSimulate(<<>>),
             with_policy        |-> AgentSimulate(agLocals.interpreted),
             interpreted_params |-> agLocals.interpreted ]
      [] agCall.op = "get_policy_recommendations" ->
           RecommendationResults(SortByTarget(TestedWithin(agCall), agCall.target),
                                 AgentSimulate(<<>>))

\* The simulate calls the stage makes.
SimulationsRun ==
    CASE agCall.op = "compare_scenarios" -> Len(agLocals.scenarios)
      [] agCall.op = "get_policy_recommendations" -> 1 + Len(test_policies)
      [] OTHER -> 2

\* The log after the simulations of the stage.
SimulationsLogged ==
    CASE agCall.op = "analyze_policy" ->
           LogEach(action_log, state, << <<"Completed baseline simulation">>,
                                         <<"Completed policy simulation">> >>)
      [] agCall.op = "compare_scenarios" ->
           LogEach(action_log, state,
                   [i \in 1..Len(agLocals.scenarios) |->
                       <<"Simulated scenario:", agLocals.scenarios[i].name>>])
      [] OTHER -> action_log

\* The stage RUNNING_SIMULATION of the four operations: the simulations are
\* run and logged; the next stage is the explanation, or the return when the
\* caller asked for none.
RunSimulations ==
    /\ agPc = "running"
    /\ simulations' = SimulationsRun
    /\ agLocals' = [results |-> SimulationResults]
    /\ IF "explain" \in DOMAIN agCall => agCall.explain
       THEN /\ action_log' = SetState(SimulationsLogged, "generating_explanation")
            /\ state' = "generating_explanation"
            /\ agPc' = "explaining"
            /\ UNCHANGED response
       ELSE Complete(agLocals'.results, SimulationsLogged)
    /\ UNCHANGED <<agCall, simulator>>

\* The stage GENERATING_EXPLANATION: the explanation is written (by the
\* language model, or by get_policy_recommendations itself, which reads the
\* first three entries and raises IndexError when there are fewer) and the
\* operation returns.
GenerateExplanation ==
    /\ agPc = "explaining"
    /\ LET logged ==
               CASE agCall.op = "analyze_policy" ->
                      LogAction(action_log, state, <<"Generated LLM explanation">>)
                 [] agCall.op = "compare_scenarios" ->
                      LogAction(action_log, state, <<"Generated comparison explanation">>)
                 [] OTHER -> action_log
       IN  IF /\ agCall.op = "get_policy_recommendations"
              /\ Len(agLocals.results.recommendations) < 3
           THEN Handle("IndexError", logged)
           ELSE Complete(agLocals.results, logged)
    /\ UNCHANGED <<agCall, agLocals, simulations, simulator>>

(***************************************************************************)
(* get_context_params and the module's DEFAULT_PARAMS (src/config.py).     *)
(* The dicts of the program are the objects of objs; objs[1] is the dict   *)
(* the name DEFAULT_PARAMS is bound to.  The copy is shallow: the nested   *)
(* dicts stay shared, and neither get_context_params nor the construction  *)
(* of an agent writes to them.                                             *)
(***************************************************************************)
VARIABLES
    objs,        \* the dicts get_context_params has read or made
    returned,    \* the maps returned so far: [context, ref]
    agents       \* the agents constructed so far: [context, params]

ctxVars == <<objs, returned, agents>>

MaxContextCalls == 3

\* REGIONAL_CONTEXTS; the money values in hundredths, as in DEFAULT_PARAMS.
REGIONAL_CONTEXTS ==
    [ default  |-> [ name |-> "Default Context", currency |-> "USD",
                     currency_symbol |-> "$",
                     description |-> "Generic urban area parameters" ],
      malaysia |-> [ name |-> "Malaysia (Klang Valley)", currency |-> "MYR",
                     currency_symbol |-> "RM",
                     fuel_price_per_liter |-> 205,
                     public_transit_fare |-> 300,
                     avg_hourly_wage |-> 1500,
                     description |-> "Parameters based on Klang Valley, Malaysia" ],
      thailand |-> [ name |-> "Thailand (Bangkok)", currency |-> "THB",
                     currency_symbol |-> "THB",
                     fuel_price_per_liter |-> 4000,
                     public_transit_fare |-> 2500,
                     avg_hourly_wage |-> 10000,
                     description |-> "Parameters based on Bangkok Metropolitan Region" ],
      custom   |-> [ name |-> "Custom Context", currency |-> "USD",
                     currency_symbol |-> "$",
                     description |-> "User-defined parameters" ] ]

\* The context names of the calls: the four of REGIONAL_CONTEXTS and one
\* that is not a key of it.
ContextNames == DOMAIN REGIONAL_CONTEXTS \cup {"atlantis"}

\* A variant of CopyOf: `params = DEFAULT_PARAMS`, the same dict.
CopyIsSameDict(heap) == 1

\* DEFAULT_PARAMS.copy(): a dict that did not exist before.
CopyOf(heap) == Len(heap) + 1

\* The body of get_context_params on the dict it calls params: the keys of
\* the context that the dict has are overwritten, and context_info is set.
WithContext(dict, context_name) ==
    IF context_name \in DOMAIN REGIONAL_CONTEXTS
    THEN LET context == REGIONAL_CONTEXTS[context_name]
         IN  [k \in DOMAIN dict \cup {"context_info"} |->
                 IF k = "context_info" THEN context
                 ELSE IF k \in DOMAIN context THEN context[k]
                 ELSE dict[k]]
    ELSE dict

\* The objects after get_context_params(context_name) has run.
AfterGetContextParams(heap, context_name) ==
    LET ref    == CopyOf(heap)
        copied == IF ref > Len(heap) THEN Append(heap, heap[1]) ELSE heap
    IN  [copied EXCEPT ![ref] = WithContext(copied[ref], context_name)]

\* get_context_params(context_name) is called and returns.
GetContextParams(context_name) ==
    /\ Len(returned) < MaxContextCalls
    /\ objs' = AfterGetContextParams(objs, context_name)
    /\ returned' = Append(returned, [context |-> context_name, ref |-> CopyOf(objs)])
    /\ UNCHANGED agents

\* PolicySimAgent(context): self.params = get_context_params(context), then
\* the simulator and the LLMHelper are built on it; LLMHelper() raises
\* ValueError when the environment holds no API key, and no agent is made.
NewAgent(context, has_api_key) ==
    /\ Len(returned) < MaxContextCalls
    /\ objs' = AfterGetContextParams(objs, context)
    /\ returned' = Append(returned, [context |-> context, ref |-> CopyOf(objs)])
    /\ agents' = IF has_api_key
                 THEN Append(agents, [context |-> context, params |-> CopyOf(objs)])
                 ELSE agents

(***************************************************************************)
(* Specifications                                                          *)
(***************************************************************************)
vars == <<simVars, scenVars, msVars, giniVars, effVars, agentVars, ctxVars>>

InitSimulator(ss, inp, cs) ==
    /\ setting \in ss
    /\ params = ParamsOf(setting)
    /\ inputs = inp
    /\ callers = cs
    /\ adjMaps = [c \in Calls |-> <<>>]
    /\ pc = [c \in Calls |-> "idle"]
    /\ frame = [c \in Calls |-> EmptyFrame]

\* No scenario is built, no calculate call and no gini call is under way.
InitScenarioVars ==
    /\ policies = <<>>
    /\ built = <<>>
    /\ combined = <<>>
    /\ merged = 0
    /\ spc = "none"

\* The locals of calculate before the call's first statement.
InitCalcLocals ==
    /\ msBaseline = <<>>
    /\ msPriceChanges = <<>>
    /\ msProjected = <<>>
    /\ msTotal = <<>>
    /\ msShift = <<>>

InitCalcIdle ==
    /\ msSetting = "default"
    /\ msUnit = 1
    /\ msPolicy = <<>>
    /\ msPc = "none"
    /\ InitCalcLocals

InitGiniLocals ==
    /\ giniReturn = <<>>
    /\ giniIndex = 0
    /\ equityScore = 0

InitGiniIdle ==
    /\ giniValues = <<>>
    /\ giniPc = "none"
    /\ InitGiniLocals

InitEfficiencyIdle ==
    /\ effShare = <<>>
    /\ effFactor = <<>>
    /\ effPc = "none"
    /\ effResult = <<>>

\* No operation of the agent is under way and none can begin.
InitAgentIdle ==
    /\ state = "idle"
    /\ action_log = <<>>
    /\ agCall = <<>>
    /\ agPc = "none"
    /\ agLocals = <<>>
    /\ simulations = 0
    /\ simulator = <<>>
    /\ response = NoResponse

\* DEFAULT_PARAMS as the module defines it; nothing has been returned.
InitContext ==
    /\ objs = <<DEFAULT_PARAMS>>
    /\ returned = <<>>
    /\ agents = <<>>

\* Only the simulator (or only the scenario) runs.
InitOthersIdle ==
    /\ InitScenarioVars
    /\ InitCalcIdle
    /\ InitGiniIdle
    /\ InitEfficiencyIdle
    /\ InitAgentIdle
    /\ InitContext

\* A few calls share one simulator and interleave.
Init == InitSimulator({"default"}, AdjChoices, Calls) /\ InitOthersIdle

\* One call at a time, over the whole grid of adjustment maps.
InitGrid == InitSimulator(Settings, GridInputs, {1}) /\ InitOthersIdle

\* Scenarios are built and merged; no simulation runs.
InitScenario == InitSimulator({"default"}, {}, {}) /\ InitOthersIdle

\* One simulator on an edge parameter set, one call.
InitEdge == InitSimulator(EdgeSettings, EdgeInputs, {1}) /\ InitOthersIdle

\* One simulator on the default ParameterSet, one call at a time, over the
\* maps of LeverInputs.
InitLevers == InitSimulator({"default"}, LeverInputs, {1}) /\ InitOthersIdle

\* One calculate call on one of CalcInputs; nothing else runs.
InitCalculate ==
    /\ InitSimulator({"default"}, {}, {})
    /\ InitAgentIdle
    /\ InitContext
    /\ InitScenarioVars
    /\ InitGiniIdle
    /\ InitEfficiencyIdle
    /\ \E i \in CalcInputs : msSetting = i[1] /\ msUnit = i[2] /\ msPolicy = i[3]
    /\ msPc = "start"
    /\ InitCalcLocals

\* One _calculate_gini call on one of the burden lists; nothing else runs.
InitGini ==
    /\ InitSimulator({"default"}, {}, {})
    /\ InitAgentIdle
    /\ InitContext
    /\ InitScenarioVars
    /\ InitCalcIdle
    /\ InitEfficiencyIdle
    /\ giniValues \in BurdenLists(MaxGroups)
    /\ giniPc = "call"
    /\ InitGiniLocals

Next ==
    \/ \E c \in Calls, a \in inputs : Call(c, a) /\ UNCHANGED <<scenVars, msVars, giniVars, effVars, agentVars, ctxVars>>
    \/ \E c \in Calls : ModeShareStep(c) /\ UNCHANGED <<scenVars, msVars, giniVars, effVars, agentVars, ctxVars>>
    \/ \E c \in Calls : EmissionsStep(c) /\ UNCHANGED <<scenVars, msVars, giniVars, effVars, agentVars, ctxVars>>
    \/ \E c \in Calls : CostStep(c) /\ UNCHANGED <<scenVars, msVars, giniVars, effVars, agentVars, ctxVars>>
    \/ \E c \in Calls : EquityStep(c) /\ UNCHANGED <<scenVars, msVars, giniVars, effVars, agentVars, ctxVars>>
    \/ \E c \in Calls : EfficiencyStep(c) /\ UNCHANGED <<scenVars, msVars, giniVars, effVars, agentVars, ctxVars>>
    \/ \E c \in Calls : ScoreStep(c) /\ UNCHANGED <<scenVars, msVars, giniVars, effVars, agentVars, ctxVars>>

NextScenario ==
    \/ \E ps \in PolicyLists(MaxPolicies) : NewScenario(ps) /\ UNCHANGED <<simVars, msVars, giniVars, effVars, agentVars, ctxVars>>
    \/ EnterCombined /\ UNCHANGED <<simVars, msVars, giniVars, effVars, agentVars, ctxVars>>
    \/ UpdateStep /\ UNCHANGED <<simVars, msVars, giniVars, effVars, agentVars, ctxVars>>
    \/ ReturnCombined /\ UNCHANGED <<simVars, msVars, giniVars, effVars, agentVars, ctxVars>>

NextCalculate ==
    \/ MsStart /\ UNCHANGED <<simVars, scenVars, giniVars, effVars, agentVars, ctxVars>>
    \/ MsOwnLoop /\ UNCHANGED <<simVars, scenVars, giniVars, effVars, agentVars, ctxVars>>
    \/ MsCrossLoop /\ UNCHANGED <<simVars, scenVars, giniVars, effVars, agentVars, ctxVars>>
    \/ MsNormalize /\ UNCHANGED <<simVars, scenVars, giniVars, effVars, agentVars, ctxVars>>
    \/ MsRound /\ UNCHANGED <<simVars, scenVars, giniVars, effVars, agentVars, ctxVars>>
    \/ MsShift /\ UNCHANGED <<simVars, scenVars, giniVars, effVars, agentVars, ctxVars>>

\* One EfficiencyModel.calculate call on one share map and one factor.
InitEfficiency ==
    /\ InitSimulator({"default"}, {}, {})
    /\ InitAgentIdle
    /\ InitContext
    /\ InitScenarioVars
    /\ InitCalcIdle
    /\ InitGiniIdle
    /\ effShare \in EfficiencyShares
    /\ effFactor \in CongestionFactors
    /\ effPc = "call"
    /\ effResult = <<>>

NextGini ==
    \/ GiniCall /\ UNCHANGED <<simVars, scenVars, msVars, effVars, agentVars, ctxVars>>
    \/ EquityScoreStep /\ UNCHANGED <<simVars, scenVars, msVars, effVars, agentVars, ctxVars>>

NextEfficiency ==
    \/ EfficiencyCall /\ UNCHANGED <<simVars, scenVars, msVars, giniVars, agentVars, ctxVars>>

\* One agent on the default context; its operations run one after another.
InitAgent ==
    /\ InitSimulator({"default"}, {}, {})
    /\ InitScenarioVars
    /\ InitCalcIdle
    /\ InitGiniIdle
    /\ InitEfficiencyIdle
    /\ InitContext
    /\ state = "idle"
    /\ action_log = <<>>
    /\ agCall = <<>>
    /\ agPc = "idle"
    /\ agLocals = <<>>
    /\ simulations = 0
    /\ simulator = AgentSimulator
    /\ response = NoResponse

NextAgent ==
    \/ \E call \in AnalyzeCalls : AgentCall(call) /\ UNCHANGED <<simVars, scenVars, msVars, giniVars, effVars, ctxVars>>
    \/ \E call \in CompareCalls : AgentCall(call) /\ UNCHANGED <<simVars, scenVars, msVars, giniVars, effVars, ctxVars>>
    \/ \E call \in QueryCalls : AgentCall(call) /\ UNCHANGED <<simVars, scenVars, msVars, giniVars, effVars, ctxVars>>
    \/ \E call \in RecommendationCalls : AgentCall(call) /\ UNCHANGED <<simVars, scenVars, msVars, giniVars, effVars, ctxVars>>
    \/ CreatePolicy /\ UNCHANGED <<simVars, scenVars, msVars, giniVars, effVars, ctxVars>>
    \/ PrepareScenarios /\ UNCHANGED <<simVars, scenVars, msVars, giniVars, effVars, ctxVars>>
    \/ \E reply \in Replies : InterpretQuery(reply) /\ UNCHANGED <<simVars, scenVars, msVars, giniVars, effVars, ctxVars>>
    \/ StartTests /\ UNCHANGED <<simVars, scenVars, msVars, giniVars, effVars, ctxVars>>
    \/ RunSimulations /\ UNCHANGED <<simVars, scenVars, msVars, giniVars, effVars, ctxVars>>
    \/ GenerateExplanation /\ UNCHANGED <<simVars, scenVars, msVars, giniVars, effVars, ctxVars>>

\* get_context_params calls and agent constructions, in any order.
InitContextCalls ==
    /\ InitSimulator({"default"}, {}, {})
    /\ InitScenarioVars
    /\ InitCalcIdle
    /\ InitGiniIdle
    /\ InitEfficiencyIdle
    /\ InitAgentIdle
    /\ InitContext

NextContext ==
    \/ \E n \in ContextNames : GetContextParams(n) /\ UNCHANGED <<simVars, scenVars, msVars, giniVars, effVars, agentVars>>
    \/ \E n \in ContextNames, k \in BOOLEAN : NewAgent(n, k) /\ UNCHANGED <<simVars, scenVars, msVars, giniVars, effVars, agentVars>>

Spec == Init /\ [][Next]_vars

SpecAgent == InitAgent /\ [][NextAgent]_vars

SpecContext == InitContextCalls /\ [][NextContext]_vars

SpecGrid == InitGrid /\ [][Next]_vars

SpecEdge == InitEdge /\ [][Next]_vars

SpecLevers == InitLevers /\ [][Next]_vars

SpecScenario == InitScenario /\ [][NextScenario]_vars

SpecCalculate == InitCalculate /\ [][NextCalculate]_vars

SpecEfficiency == InitEfficiency /\ [][NextEfficiency]_vars

SpecGini == InitGini /\ [][NextGini]_vars

(***************************************************************************)
(* Properties                                                              *)
(***************************************************************************)
\* Call c has run the step that pc value `stage` stands before.
Past(c, stage) == PcIndex(pc[c]) > PcIndex(stage)

Done(c) == pc[c] = "done"

\* The levers of an adjustment map lie in their documented ranges.
LeversInRange(adj) ==
    /\ Get(adj, "congestion_price") >= 0
    /\ Get(adj, "pt_subsidy_percent") \in 0..100
    /\ Get(adj, "fuel_tax_percent") \in 0..100

SharesSumToOne(mode_share) == SumNum(mode_share) = mode_share.den

\* Two share maps hold the same value for every mode.
SameShares(a, b) ==
    /\ DOMAIN a.num = DOMAIN b.num
    /\ \A m \in DOMAIN a.num : a.num[m] * b.den = b.num[m] * a.den

\* C1: for levers in their documented ranges and baseline shares that sum to
\* 1.0, the projected shares a call returns (rounded to four decimals) sum
\* to 1.0.
C1_ProjectedSharesSumToOne ==
    \A c \in Calls :
        (Past(c, "mode_share") /\ LeversInRange(adjMaps[c]) /\ SharesSumToOne(params.mode_share))
            => SharesSumToOne(frame[c].mode_result.projected_shares)

\* C2: the overall score a call returns lies in [0, 100] (0..1000 tenths).
C2_OverallScoreInRange ==
    \A c \in Calls : Done(c) => frame[c].overall_score \in 0..1000

\* share of public transit * daily_trips * (fare * pt_subsidy_percent / 100)
\* * 365, in hundredths, for the share map `share`.
SubsidyPerYear(ps, share, adj) ==
    BigRoundMul(share.num["public_transit"] * Get(adj, "pt_subsidy_percent"),
                FracMul(FracMul(Frac(ps.daily_trips, share.den),
                                Frac(ps.public_transit_fare, 100)),
                        Frac(365, 1)))

C4_SameAdjustmentsSameResult ==
    \A c1, c2 \in Calls :
        (Done(c1) /\ Done(c2) /\ adjMaps[c1] = adjMaps[c2])
            => ResultOf(frame[c1]) = ResultOf(frame[c2])

\* Two calls with the same non-empty map have finished and a call with
\* another map has run on the same simulator.
C4_Witness ==
    \E c1, c2, c3 \in Calls :
        /\ c1 # c2
        /\ Done(c1) /\ Done(c2) /\ Done(c3)
        /\ adjMaps[c1] = adjMaps[c2]
        /\ DOMAIN adjMaps[c1] # {}
        /\ adjMaps[c3] # adjMaps[c1]
        /\ DOMAIN adjMaps[c3] # {}

\* Every share of the map is a multiple of 0.0001.
FourDecimalShares(mode_share) ==
    \A m \in DOMAIN mode_share.num : (mode_share.num[m] * 10000) % mode_share.den = 0

\* The mode result of call c reproduces the baseline.
ReproducesBaseline(c) ==
    /\ SameShares(frame[c].mode_result.projected_shares, frame[c].mode_result.baseline_shares)
    /\ \A m \in DOMAIN frame[c].mode_result.shift_percentage :
           frame[c].mode_result.shift_percentage[m] = 0

\* C5 as stated: with no adjustments the projected shares equal the baseline
\* shares and every shift is 0.
C5_NoAdjustmentReproducesBaseline ==
    \A c \in Calls :
        (Past(c, "mode_share") /\ DOMAIN adjMaps[c] = {}) => ReproducesBaseline(c)

\* C5 amended: with no adjustments, and baseline shares that sum to 1.0 and
\* have at most four decimals, the projected shares equal the baseline shares
\* and every shift is 0.
C5_NoAdjustmentReproducesRoundBaseline ==
    \A c \in Calls :
        (/\ Past(c, "mode_share")
         /\ DOMAIN adjMaps[c] = {}
         /\ SharesSumToOne(params.mode_share)
         /\ FourDecimalShares(params.mode_share))
            => ReproducesBaseline(c)

\* A call without adjustments has its mode result, on baseline shares of at
\* most four decimals.
C5_Witness ==
    \E c \in Calls :
        /\ Past(c, "mode_share")
        /\ DOMAIN adjMaps[c] = {}
        /\ SharesSumToOne(params.mode_share)
        /\ FourDecimalShares(params.mode_share)
        /\ frame[c].mode_result.baseline_shares = params.mode_share

\* The result a call computed last came from that call's own projected
\* shares, and its equity result from its own user cost; a result is empty
\* until its step has run.
OwnDataflow(c) ==
    LET f  == frame[c]
        ms == f.mode_result.projected_shares
    IN  /\ pc[c] = "cost" => f.emissions_result = EmissionsCalculate(params, ms)
        /\ pc[c] = "equity" => f.cost_result = CostCalculate(params, ms, adjMaps[c])
        /\ pc[c] = "efficiency" =>
               f.equity_result = EquityCalculate(params, f.cost_result.user_cost_per_trip,
                                                 ms, adjMaps[c])
        /\ pc[c] = "score" =>
               f.efficiency_result = EfficiencyCalculate(params, ms, CongestionFactor(params, ms))
        /\ pc[c] = "done" =>
               f.overall_score = CalculateOverallScore(f.emissions_result, f.cost_result,
                                                       f.equity_result, f.efficiency_result)
        /\ ~Past(c, "mode_share") => f.mode_result = <<>>
        /\ ~Past(c, "emissions") => f.emissions_result = <<>>
        /\ ~Past(c, "cost") => f.cost_result = <<>>
        /\ ~Past(c, "equity") => f.equity_result = <<>>
        /\ ~Past(c, "efficiency") => f.efficiency_result = <<>>

\* A call moves one position at a time along PcOrder, and a result it has
\* computed stays as it is.
OneStepForward ==
    \A c \in Calls :
        /\ pc'[c] # pc[c] => PcIndex(pc'[c]) = PcIndex(pc[c]) + 1
        /\ Past(c, "mode_share") => frame'[c].mode_result = frame[c].mode_result
        /\ Past(c, "emissions") => frame'[c].emissions_result = frame[c].emissions_result
        /\ Past(c, "cost") => frame'[c].cost_result = frame[c].cost_result
        /\ Past(c, "equity") => frame'[c].equity_result = frame[c].equity_result
        /\ Past(c, "efficiency") => frame'[c].efficiency_result = frame[c].efficiency_result

\* C6: in every call the models run in the order ModeShare, Emissions, Cost,
\* Equity, Efficiency, score; each of them gets the call's own projected
\* shares and Equity gets the user_cost_per_trip of the call's own CostResult.
C6_PipelineOrderAndDataflow ==
    [](\A c \in Calls : OwnDataflow(c)) /\ [][OneStepForward]_vars

\* A call has finished whose user cost differs from the user cost of the
\* baseline, while another call is still between its steps.
C6_Witness ==
    \E c, d \in Calls :
        /\ Done(c)
        /\ frame[c].cost_result.user_cost_per_trip
               # CostCalculate(params, params.mode_share, <<>>).user_cost_per_trip
        /\ pc[d] \in {"cost", "equity", "efficiency"}

\* C7: the ParameterSet is the one the simulator was built on, and every
\* caller's adjustment map is the one it passed.
C7_ParametersAndAdjustmentsUnmodified ==
    /\ params = ParamsOf(setting)
    /\ \A c \in Calls : pc[c] # "idle" => adjMaps[c] = frame[c].policy

\* Every call has finished, and not all of them were without adjustments.
C7_Witness ==
    /\ \A c \in Calls : Done(c)
    /\ \E c \in Calls : DOMAIN adjMaps[c] # {}
    /\ \E c \in Calls : Get(adjMaps[c], "pt_subsidy_percent") > 0

\* What call c computed last, and the SimulationResult it returned, are what
\* simulate computes for its map when it runs alone on the ParameterSet the
\* simulator was built on.
AsRunAlone(c) ==
    LET f      == frame[c]
        alone  == ParamsOf(setting)
        shares == ModeShareCalculate(alone, f.policy).projected_shares
    IN  /\ pc[c] = "emissions" => f.mode_result = ModeShareCalculate(alone, f.policy)
        /\ pc[c] = "cost" => f.emissions_result = EmissionsCalculate(alone, shares)
        /\ pc[c] = "equity" => f.cost_result = CostCalculate(alone, shares, f.policy)
        /\ pc[c] = "efficiency" =>
               f.equity_result =
                   EquityCalculate(alone, CostCalculate(alone, shares, f.policy).user_cost_per_trip,
                                   shares, f.policy)
        /\ pc[c] = "score" =>
               f.efficiency_result =
                   EfficiencyCalculate(alone, shares, CongestionFactor(alone, shares))
        /\ Done(c) => ResultOf(f) = Simulate(alone, f.policy)

\* C8: however the calls on one simulator interleave, each call's values, and
\* the SimulationResult it returns, are those of the call run alone.
C8_InterleavedCallsAsRunAlone == \A c \in Calls : AsRunAlone(c)

\* Two calls with different adjustments are both between their steps, and a
\* third has finished.
C8_Witness ==
    \E c, d, e \in Calls :
        /\ pc[c] \in {"emissions", "cost"}
        /\ pc[d] \in {"equity", "efficiency", "score"}
        /\ adjMaps[c] # adjMaps[d]
        /\ DOMAIN adjMaps[c] # {} /\ DOMAIN adjMaps[d] # {}
        /\ Done(e)

\* C9: a finished call returned what simulate returns for the named levers of
\* its map alone; the other keys of the map change nothing.
C9_UnrecognizedKeysIgnored ==
    \A c \in Calls :
        Done(c) => ResultOf(frame[c]) = Simulate(params, NamedLevers(adjMaps[c]))

\* A call whose map sets a congestion price and a key no model reads has
\* finished.
C9_Witness ==
    \E c \in Calls :
        /\ Done(c)
        /\ "peak_multiplier" \in DOMAIN adjMaps[c]
        /\ Get(adjMaps[c], "congestion_price") > 0

\* The policies of the list that set key k.
Setters(ps, k) == {i \in 1..Len(ps) : k \in DOMAIN ps[i].parameters}

LastSetter(ps, k) == CHOOSE i \in Setters(ps, k) : \A j \in Setters(ps, k) : j <= i

\* C10: the returned map has every key some policy sets, each with the value
\* of the last policy in the list that sets it, and the policies' parameters
\* are as they were when the scenario was built.
C10_LaterPolicyWins ==
    spc = "returned" =>
        /\ DOMAIN combined = UNION {DOMAIN built[i].parameters : i \in 1..Len(built)}
        /\ \A k \in DOMAIN combined : combined[k] = built[LastSetter(built, k)].parameters[k]
        /\ policies = built

\* A map was returned for a scenario in which two policies set
\* pt_subsidy_percent to different values.
C10_Witness ==
    /\ spc = "returned"
    /\ \E i, j \in 1..Len(built) :
           /\ i < j
           /\ "pt_subsidy_percent" \in DOMAIN built[i].parameters
           /\ "pt_subsidy_percent" \in DOMAIN built[j].parameters
           /\ built[i].parameters["pt_subsidy_percent"] # built[j].parameters["pt_subsidy_percent"]

\* An adjustment map without its pt_subsidy_percent.
WithoutSubsidy(adj) == [k \in DOMAIN adj \ {"pt_subsidy_percent"} |-> adj[k]]

\* C13: in cost_by_mode the public_transit cost is the time cost alone
\* (avg_time * 1.3 * value_of_time) when pt_subsidy_percent is 100 and the
\* base fare plus the time cost when it is 0, and every other mode's cost is
\* what it is without the subsidy.
C13_SubsidyOnlyOnTransitFare ==
    \A c \in Calls :
        Past(c, "cost") =>
            LET cbm == frame[c].cost_result.cost_by_mode
                pt  == Get(adjMaps[c], "pt_subsidy_percent")
            IN  /\ pt = 100 =>
                       cbm["public_transit"] = RoundSum(<<Term(1, TimeCost(params, 13))>>)
                /\ pt = 0 =>
                       cbm["public_transit"] =
                           RoundSum(<<Term(params.public_transit_fare, Frac(1, 1)),
                                      Term(1, TimeCost(params, 13))>>)
                /\ \A m \in DOMAIN cbm \ {"public_transit"} :
                       cbm[m] = CostByMode(params, WithoutSubsidy(adjMaps[c]))[m]

\* A call with a subsidy of 100 percent has its cost result, and public
\* transit costs less than it does without adjustments.
C13_Witness ==
    \E c \in Calls :
        /\ Past(c, "cost")
        /\ Get(adjMaps[c], "pt_subsidy_percent") = 100
        /\ frame[c].cost_result.cost_by_mode["public_transit"]
               < CostByMode(params, <<>>)["public_transit"]

\* 1.0 + (projected private_car share - baseline private_car share) of call
\* c, as a reduced fraction.
CarShareChangePlusOne(c) ==
    LET p == frame[c].mode_result.projected_shares
        b == params.mode_share
    IN  Frac(p.den * b.den + ShareGet(p, "private_car") * b.den
               - ShareGet(b, "private_car") * p.den,
             p.den * b.den)

\* The congestion factor of call c is max(0.8, 1.0 + car share change).
FactorIsFlooredChange(c) ==
    LET raw == CarShareChangePlusOne(c)
        cf  == frame[c].congestion_factor
    IN  /\ cf = IF 5 * raw.n < 4 * raw.d THEN Frac(4, 5) ELSE raw
        /\ 5 * cf.n >= 4 * cf.d

\* C15 as stated: the congestion factor handed to the efficiency model is
\* max(0.8, 1.0 + (projected - baseline private_car share)), never below 0.8,
\* and exactly 1.0 when the adjustment map is empty.
C15_CongestionFactorFlooredAndNeutral ==
    \A c \in Calls :
        Past(c, "efficiency") =>
            /\ FactorIsFlooredChange(c)
            /\ DOMAIN adjMaps[c] = {} => frame[c].congestion_factor = Frac(1, 1)

\* C15 amended: the congestion factor is max(0.8, 1.0 + car share change),
\* never below 0.8, and exactly 1.0 when the adjustment map is empty and the
\* baseline shares sum to 1.0 with at most four decimals.
C15_CongestionFactorFlooredAndNeutralOnRoundBaseline ==
    \A c \in Calls :
        Past(c, "efficiency") =>
            /\ FactorIsFlooredChange(c)
            /\ (/\ DOMAIN adjMaps[c] = {}
                /\ SharesSumToOne(params.mode_share)
                /\ FourDecimalShares(params.mode_share))
                   => frame[c].congestion_factor = Frac(1, 1)

\* A call whose private_car share fell by more than 0.2 has its efficiency
\* result, computed with the factor 0.8.
C15_Witness ==
    \E c \in Calls :
        /\ Past(c, "efficiency")
        /\ 5 * CarShareChangePlusOne(c).n < 4 * CarShareChangePlusOne(c).d
        /\ frame[c].congestion_factor = Frac(4, 5)
        /\ frame[c].efficiency_result.travel_time_by_mode["private_car"] = 240

\* The ParameterSet's mode shares sum to zero, or some mode's share is zero.
DegenerateShares(mode_share) ==
    \/ SumNum(mode_share) = 0
    \/ \E m \in DOMAIN mode_share.num : mode_share.num[m] = 0

\* sum(coeff[mode] * share), as a numerator over the share map's den.
WeightedSum(coeff, mode_share) ==
    SumOver([m \in DOMAIN mode_share.num |-> coeff[m] * mode_share.num[m]],
            DOMAIN mode_share.num)

\* C16: on a ParameterSet whose mode shares sum to zero or hold a zero share
\* no call raises; the shares are left unnormalised when their total is zero,
\* shift_percentage is 0 for each mode with a zero baseline, congestion_index
\* is 1.0 when the free-flow time is 0 and system_throughput is 0 when the
\* average travel time is 0.
C16_DegenerateInputsReturn ==
    \A c \in Calls :
        DegenerateShares(params.mode_share) =>
            /\ pc[c] # "raised"
            /\ frame[c].error = "none"
            /\ Past(c, "mode_share") =>
                   LET r == frame[c].mode_result
                   IN  /\ SumNum(params.mode_share) = 0 => SumNum(r.projected_shares) = 0
                       /\ \A m \in DOMAIN params.mode_share.num :
                              params.mode_share.num[m] = 0 => r.shift_percentage[m] = 0
            /\ Past(c, "efficiency") =>
                   LET e  == frame[c].efficiency_result
                       ms == frame[c].mode_result.projected_shares
                   IN  /\ WeightedSum(base_times, ms) = 0 => e.congestion_index = 1000
                       /\ WeightedSum(e.travel_time_by_mode, ms) = 0 => e.system_throughput = 0

\* A call on a ParameterSet with all shares zero, under a non-empty map, has
\* returned with the congestion index 1.0 and the throughput 0.
C16_Witness ==
    \E c \in Calls :
        /\ Done(c)
        /\ SumNum(params.mode_share) = 0
        /\ DOMAIN adjMaps[c] # {}
        /\ frame[c].efficiency_result.congestion_index = 1000
        /\ frame[c].efficiency_result.system_throughput = 0

\* The modes of a share map that DEFAULT_PARAMS does not name.
UnknownModes(mode_share) ==
    DOMAIN mode_share.num \ {ModeOrder[i] : i \in 1..Len(ModeOrder)}

\* A share map without the modes DEFAULT_PARAMS does not name.
KnownPart(mode_share) ==
    [ num |-> [m \in DOMAIN mode_share.num \ UnknownModes(mode_share) |-> mode_share.num[m]],
      den |-> mode_share.den ]

\* C17: on a ParameterSet whose mode_share holds a mode outside the four of
\* DEFAULT_PARAMS, the emissions result has 0 for that mode and the total of
\* the other modes, and the call does not raise.
C17_UnknownModeTolerated ==
    \A c \in Calls :
        UnknownModes(params.mode_share) # {} =>
            /\ Past(c, "emissions") =>
                   LET e  == frame[c].emissions_result
                       ms == frame[c].mode_result.projected_shares
                   IN  /\ \A m \in UnknownModes(ms) : e.co2_by_mode[m] = 0
                       /\ e.total_co2_kg_per_day
                              = EmissionsCalculate(params, KnownPart(ms)).total_co2_kg_per_day
            /\ pc[c] # "raised"

\* C19: with the default ParameterSet and no adjustments the emissions are
\* 3,230,769 kg of CO2 per day to the kilogram; private_car's 2,180,769.23
\* is the one value divided by the occupancy 1.3, motorcycle's is 750,000,
\* public_transit's 300,000, walking_cycling's 0, and the total is their sum.
C19_DefaultEmissionsTotal ==
    \A c \in Calls :
        (/\ Past(c, "emissions")
         /\ params = DEFAULT_PARAMS
         /\ DOMAIN NamedLevers(adjMaps[c]) = {}) =>
            LET e == frame[c].emissions_result
            IN  /\ RoundDec(e.total_co2_kg_per_day, 100, 0) = 3230769
                /\ e.co2_by_mode = [ private_car |-> 218076923, motorcycle |-> 75000000,
                                     public_transit |-> 30000000, walking_cycling |-> 0 ]
                /\ e.total_co2_kg_per_day
                       = SumOver(e.co2_by_mode, DOMAIN e.co2_by_mode)

\* A call without adjustments on the default ParameterSet has its emissions
\* result.
C19_Witness ==
    \E c \in Calls :
        /\ Past(c, "emissions")
        /\ params = DEFAULT_PARAMS
        /\ DOMAIN adjMaps[c] = {}
        /\ frame[c].emissions_result.total_co2_kg_per_day > 0

(***************************************************************************)
(* The order of the two elasticity loops                                   *)
(***************************************************************************)
\* The share of mode m in a share map, as a reduced fraction.
ShareOf(sm, m) == Frac(sm.num[m], sm.den)

\* 1 + tenths/10 * dp, where dp is the call's fractional price change of
\* mode m, msPriceChanges[m] / (100 * msUnit).
OneP(tenths, m) ==
    Frac(1000 * msUnit + tenths * msPriceChanges[m], 1000 * msUnit)

\* The own-adjusted share of each mode, from the elasticities -0.3, -0.4,
\* -0.4 and -0.1.
OwnAdjusted ==
    [ private_car     |-> FracMul(ShareOf(msBaseline, "private_car"), OneP(-3, "private_car")),
      motorcycle      |-> FracMul(ShareOf(msBaseline, "motorcycle"), OneP(-4, "motorcycle")),
      public_transit  |-> FracMul(ShareOf(msBaseline, "public_transit"), OneP(-4, "public_transit")),
      walking_cycling |-> FracMul(ShareOf(msBaseline, "walking_cycling"), OneP(-1, "walking_cycling")) ]

\* The shares before renormalisation: the own-adjusted private_car share
\* times 1 + 0.3 dp_pt, the own-adjusted public_transit share times
\* 1 + 0.2 dp_car, the two other own-adjusted shares as they are.
BeforeRenormalization ==
    [ OwnAdjusted EXCEPT
        !.private_car = FracMul(@, OneP(3, "public_transit")),
        !.public_transit = FracMul(@, OneP(2, "private_car")) ]

SharesAre(expected) ==
    \A i \in 1..Len(ModeOrder) :
        ShareOf(msProjected, ModeOrder[i]) = expected[ModeOrder[i]]

\* C20: in ModeShareModel.calculate no cross-elasticity step runs before the
\* own-price step has been applied to every mode (entering the cross loop,
\* every share is baseline * (1 + elasticity * dp)), the cross step
\* multiplies those own-adjusted shares, and so before renormalisation
\* private_car = baseline * (1 - 0.3 dp_car) * (1 + 0.3 dp_pt),
\* public_transit = baseline * (1 - 0.4 dp_pt) * (1 + 0.2 dp_car), and
\* motorcycle and walking_cycling carry their own-price factor only.
C20_OwnStepBeforeCrossStep ==
    /\ [](msPc = "own" => msProjected = msBaseline)
    /\ [](msPc = "cross" => SharesAre(OwnAdjusted))
    /\ [](msPc = "normalize" => SharesAre(BeforeRenormalization))
    /\ [][msPc = "own" => msPc' = "cross"]_vars
    /\ [][msPc = "cross" => msPc' = "normalize"]_vars

\* The cross loop has run on the default ParameterSet with both a transit
\* subsidy and a car price change, and it changed both shares.
C20_Witness ==
    /\ msPc = "normalize"
    /\ msSetting = "default"
    /\ msPriceChanges["private_car"] > 0
    /\ msPriceChanges["public_transit"] < 0
    /\ ShareOf(msProjected, "private_car") # OwnAdjusted["private_car"]
    /\ ShareOf(msProjected, "public_transit") # OwnAdjusted["public_transit"]

(***************************************************************************)
(* The guard of the renormalisation                                        *)
(***************************************************************************)
\* The shares sum to the fraction f.
SharesSumTo(f) == Frac(SumNum(msProjected), msProjected.den) = f

\* Every share is its value before renormalisation divided by msTotal.
DividedByTotal ==
    \A i \in 1..Len(ModeOrder) :
        ShareOf(msProjected, ModeOrder[i])
            = FracMul(BeforeRenormalization[ModeOrder[i]], Frac(msTotal.d, msTotal.n))

CarShareAtFuelTax ==
    [ k \in 0..500 |->
        ModeShareCalculateAt(DEFAULT_PARAMS, [fuel_tax_percent |-> k], 5)
            .projected_shares.num["private_car"] ]

\* A call on the default ParameterSet with a fuel tax alone has returned.
FuelTaxCallReturned == msPc = "returned" /\ msUnit = 5 /\ msSetting = "default"

\* C11: with the default ParameterSet and every other lever at 0, the
\* returned private_car share is strictly decreasing in fuel_tax_percent
\* over 0..100: for any two values a < b the share at b is strictly smaller
\* than the share at a.
C11_CarShareStrictlyDecreasingInFuelTax ==
    FuelTaxCallReturned =>
        LET a == msPolicy["fuel_tax_percent"]
        IN  /\ msProjected.num["private_car"] = CarShareAtFuelTax[a]
            /\ \A b \in (a + 1)..500 :
                   CarShareAtFuelTax[b] < msProjected.num["private_car"]

\* C11, as the rounding to four decimals allows: for any two values a < b of
\* fuel_tax_percent over 0..100 the returned private_car share at b is never
\* larger than the share at a, and it is strictly smaller when b is at least
\* one percentage point above a.
C11_CarShareFallsWithEachPointOfFuelTax ==
    FuelTaxCallReturned =>
        LET a == msPolicy["fuel_tax_percent"]
        IN  /\ msProjected.num["private_car"] = CarShareAtFuelTax[a]
            /\ \A b \in (a + 1)..500 :
                   /\ CarShareAtFuelTax[b] <= msProjected.num["private_car"]
                   /\ b >= a + msUnit =>
                          CarShareAtFuelTax[b] < msProjected.num["private_car"]

\* The call with a fuel tax of 1.8 percent has returned 0.4491, the share
\* that a fuel tax of 2.0 percent gives too, and less than with no tax.
C11_Witness ==
    /\ FuelTaxCallReturned
    /\ msPolicy["fuel_tax_percent"] = 9
    /\ msProjected.num["private_car"] = 4491
    /\ CarShareAtFuelTax[10] = 4491
    /\ CarShareAtFuelTax[0] = 4500

(***************************************************************************)
(* A transit subsidy combined with a congestion price                      *)
(***************************************************************************)
\* The call has returned and its adjustment map held a positive transit
\* subsidy and a positive congestion price.
SubsidyAndPriceReturned ==
    /\ msPc = "returned"
    /\ Get(msPolicy, "pt_subsidy_percent") > 0
    /\ Get(msPolicy, "congestion_price") > 0

\* The returned share of mode m is above (below) its baseline share.
AboveBaseline(m) ==
    msProjected.num[m] * msBaseline.den > msBaseline.num[m] * msProjected.den

BelowBaseline(m) ==
    msProjected.num[m] * msBaseline.den < msBaseline.num[m] * msProjected.den

IdenticalPositive ==
    /\ Len(giniValues) > 0
    /\ \A i \in 1..Len(giniValues) : giniValues[i] = giniValues[1] /\ giniValues[i] > 0

EmptyOrZeroSum ==
    \A i \in 1..Len(giniValues) : giniValues[i] = 0

EfficiencyReturned == effPc = "returned"

\* The factor multiplies the base times of private_car and motorcycle (each
\* then rounded to the nearest tenth of a minute) and of no other mode.
OnlyCarAndMotorcycleCongested ==
    LET times == effResult.travel_time_by_mode
    IN  /\ times.public_transit = 450
        /\ times.walking_cycling = 500
        /\ \A m \in {"private_car", "motorcycle"} :
              2 * Abs(times[m] * effFactor.d - base_times[m] * 10 * effFactor.n)
                  <= effFactor.d

IndexOneAtFactorOne ==
    effFactor = Frac(1, 1) => effResult.congestion_index = 1000

\* congestion_index, in thousandths, is no further than slack / 2000 from the
\* interval between 1 and the factor.
IndexBetweenOneAndFactor(slack) ==
    /\ 2 * effResult.congestion_index * effFactor.d + slack * effFactor.d
           >= 2000 * Min(effFactor.n, effFactor.d)
    /\ 2 * effResult.congestion_index * effFactor.d - slack * effFactor.d
           <= 2000 * Max(effFactor.n, effFactor.d)

\* C21 as stated: the congestion factor multiplies only the private_car and
\* motorcycle base times, congestion_index is exactly 1.0 at factor 1.0, and
\* for every factor f and non-negative shares congestion_index lies between
\* min(1, f) and max(1, f).
C21_CongestionIndexBetweenOneAndFactor ==
    EfficiencyReturned =>
        /\ OnlyCarAndMotorcycleCongested
        /\ IndexOneAtFactorOne
        /\ IndexBetweenOneAndFactor(0)

\* C21 as the code has it: the same, with congestion_index within 0.0025 of
\* the interval between min(1, f) and max(1, f): the two travel times are
\* rounded to 0.1 minute before they are weighted (at most 0.05 / 25 on the
\* index) and the index is rounded to three decimals.
C21_CongestionIndexWithinRoundingOfFactor ==
    EfficiencyReturned =>
        /\ OnlyCarAndMotorcycleCongested
        /\ IndexOneAtFactorOne
        /\ IndexBetweenOneAndFactor(5)

\* A call on private_car alone at factor 1.0017: the car time is 30.1 minutes
\* and congestion_index 1.003, above the factor.
C21_Witness ==
    /\ EfficiencyReturned
    /\ effFactor = Frac(10017, 10000)
    /\ effShare.num.private_car = effShare.den
    /\ effResult.travel_time_by_mode.private_car = 301
    /\ effResult.congestion_index = 1003

(***************************************************************************)
(* The equity fields of a SimulationResult                                 *)
(***************************************************************************)
\* C22: for every simulate call whose user cost per trip is not negative,
\* the returned equity_score is 1 - gini_index on the three-decimal fields,
\* and gini_index and equity_score both lie in [0, 1].
C22_EquityScoreIsOneMinusGini ==
    \A c \in Calls :
        Past(c, "equity") /\ frame[c].cost_result.user_cost_per_trip >= 0 =>
            LET e == frame[c].equity_result
            IN  /\ e.equity_score = 1000 - e.gini_index
                /\ e.gini_index \in 0..1000
                /\ e.equity_score \in 0..1000

\* A call with a positive user cost has returned a gini_index of 0.331 and
\* an equity_score of 0.669.
C22_Witness ==
    \E c \in Calls :
        /\ Done(c)
        /\ frame[c].cost_result.user_cost_per_trip > 0
        /\ frame[c].equity_result.gini_index = 331
        /\ frame[c].equity_result.equity_score = 669

(***************************************************************************)
(* Projected shares over the ranges Policy.validate accepts                *)
(***************************************************************************)
\* C24: on the default ParameterSet, for every adjustment map whose levers
\* Policy.validate accepts (congestion_price 0..50, pt_subsidy_percent
\* 0..100, fuel_tax_percent 0..100), every projected share lies in [0, 1].
C24_ProjectedSharesWithinUnitInterval ==
    \A c \in Calls :
        /\ Past(c, "mode_share")
        /\ setting = "default"
        /\ Validate(adjMaps[c]) = {}
        => LET projected == frame[c].mode_result.projected_shares
           IN  \A m \in DOMAIN projected.num :
                   0 <= projected.num[m] /\ projected.num[m] <= projected.den

(***************************************************************************)
(* The levers no model reads                                               *)
(***************************************************************************)
\* C25: peak_multiplier, parking_hourly_rate, parking_max_hours,
\* ev_purchase_subsidy and ev_tax_reduction_percent are read by no model:
\* simulate on a map that holds only these levers returns the
\* SimulationResult of simulate({}), with the projected shares equal to the
\* baseline shares.
C25_UnreadLeversReturnBaseline ==
    \A c \in Calls :
        Done(c) /\ adjMaps[c] \in UnreadLeverMaps =>
            /\ ResultOf(frame[c]) = Simulate(params, <<>>)
            /\ frame[c].mode_result.projected_shares.num
                   = [m \in DOMAIN params.mode_share.num |->
                         params.mode_share.num[m] * 100]
            /\ frame[c].cost_result.government_cost_per_year = [hi |-> 0, lo |-> 0]

\* A call on the map with all five levers at the top of their ranges has
\* returned.
C25_Witness ==
    \E c \in Calls :
        /\ Done(c)
        /\ DOMAIN adjMaps[c] = {"peak_multiplier", "parking_hourly_rate", "parking_max_hours",
                                "ev_purchase_subsidy", "ev_tax_reduction_percent"}
        /\ adjMaps[c].parking_hourly_rate = 20

(***************************************************************************)
(* The equity component across adjustment maps                             *)
(***************************************************************************)
PositiveUserCost(c) == Done(c) /\ frame[c].cost_result.user_cost_per_trip > 0

\* EquityModel.calculate on the default ParameterSet returns gini_index 0.331
\* and equity_score 0.669 for every user cost from lo to hi hundredths.
EquityFieldsSteady(lo, hi) ==
    \A u \in lo..hi :
        LET e == EquityCalculate(DEFAULT_PARAMS, u, DEFAULT_PARAMS.mode_share, <<>>)
        IN  e.gini_index = 331 /\ e.equity_score = 669

AgentReturned == agPc = "returned"

\* The call under way or returned last is an analyze_policy call that
\* get_policy rejects: the type is not in the registry, or a keyword is not
\* a parameter of the policy's constructor.
AnalyzeRejected ==
    /\ agPc \notin {"none", "idle"}
    /\ agCall.op = "analyze_policy"
    /\ GetPolicy(agCall.policy_type, agCall.parameters).error # "none"

\* C23: analyze_policy lets no exception escape; for a policy_type that is
\* not in the registry or constructor parameters the policy does not accept
\* it returns success = False and results = None with the agent in ERROR,
\* and no simulation was run for the call.
C23_AnalyzePolicyReturnsErrorResponse ==
    /\ (agPc \notin {"none", "idle"} /\ agCall.op = "analyze_policy") => agPc # "raised"
    /\ (AnalyzeRejected /\ agPc # "analyzing") =>
           /\ AgentReturned
           /\ response.success = FALSE
           /\ response.results = <<>>
           /\ state = "error"
           /\ simulations = 0

\* analyze_policy("congestion_pricing", {"toll": 5}) has returned.
C23_Witness ==
    /\ AgentReturned
    /\ AnalyzeRejected
    /\ agCall.policy_type = "congestion_pricing"
    /\ DOMAIN agCall.parameters = {"toll"}

\* C27: every public operation returns in a terminal state that matches its
\* response: COMPLETE when success is True, ERROR when it is False, and
\* never ANALYZING_REQUEST, RUNNING_SIMULATION or GENERATING_EXPLANATION.
C27_ReturnsInMatchingTerminalState ==
    AgentReturned =>
        /\ response.success => state = "complete"
        /\ ~response.success => state = "error"
        /\ state \notin {"analyzing_request", "running_simulation", "generating_explanation"}

\* The entries of a results list are within the budget b.
WithinBudget(entries, b) ==
    \A i \in 1..Len(entries) : ~TotalAbove(entries[i].govt_cost, b)

\* C28: get_policy_recommendations with a budget_constraint b >= 0, b = 0
\* included, returns recommendations and all_tested whose entries all have
\* govt_cost <= b.
C28_RecommendationsWithinBudget ==
    ( /\ AgentReturned
      /\ agCall.op = "get_policy_recommendations"
      /\ "budget_constraint" \in DOMAIN agCall
      /\ agCall.budget_constraint >= 0
      /\ response.success ) =>
            /\ WithinBudget(response.results.recommendations, agCall.budget_constraint)
            /\ WithinBudget(response.results.all_tested, agCall.budget_constraint)

\* The order of the states of an operation.
StateRank(st) ==
    CASE st = "idle" -> 0
      [] st = "analyzing_request" -> 1
      [] st = "selecting_models" -> 2
      [] st = "running_simulation" -> 3
      [] st = "generating_explanation" -> 4
      [] st = "complete" -> 5
      [] st = "error" -> 6

IsStateChange(entry) == entry.action[1] = "State changed to"

\* The states the log's state changes name, in the order of the log.
StateChanges(log) ==
    LET changes == SelectSeq(log, IsStateChange)
    IN  [i \in 1..Len(changes) |-> changes[i].action[2]]

\* The operations C29 is about.
StagedOperations == {"analyze_policy", "compare_scenarios", "get_policy_recommendations"}

\* What the log of a call of a staged operation shows at any moment: it
\* begins with the change to ANALYZING_REQUEST, which occurs once; the
\* changes go forward in the order of the stages, ERROR after any; the last
\* change names the state the agent is in; every entry carries the state of
\* the last change before it; without explain no change to
\* GENERATING_EXPLANATION occurs; and a response returned holds the log.
LogOfOneCall ==
    (agPc \notin {"none", "idle"} /\ agCall.op \in StagedOperations) =>
        LET changes == StateChanges(action_log)
        IN  /\ action_log # <<>>
            /\ IsStateChange(action_log[1])
            /\ changes[1] = "analyzing_request"
            /\ \A i \in 2..Len(changes) :
                   /\ StateRank(changes[i]) > StateRank(changes[i - 1])
                   /\ changes[i - 1] \notin {"complete", "error"}
            /\ changes[Len(changes)] = state
            /\ \A i \in 1..Len(action_log) :
                   action_log[i].state = StateChanges(SubSeq(action_log, 1, i))
                                             [Len(StateChanges(SubSeq(action_log, 1, i)))]
            /\ ("explain" \in DOMAIN agCall /\ ~agCall.explain) =>
                   \A i \in 1..Len(changes) : changes[i] # "generating_explanation"
            /\ AgentReturned => response.actions_taken = action_log

\* A step of a call of a staged operation: its first step leaves a log that
\* holds nothing but the entries ANALYZING_REQUEST begins with; a later step
\* moves the state forward or not at all, and appends to the log.
StagedStep ==
    (agPc' \notin {"none", "idle"} /\ agCall'.op \in StagedOperations) =>
        IF agPc' = "analyzing"
        THEN /\ state' = "analyzing_request"
             /\ Len(action_log') \in 1..2
             /\ \A i \in 1..Len(action_log') : action_log'[i].state = "analyzing_request"
        ELSE /\ state' # state =>
                    /\ StateRank(state') > StateRank(state)
                    /\ state \notin {"complete", "error"}
             /\ Len(action_log') >= Len(action_log)
             /\ SubSeq(action_log', 1, Len(action_log)) = action_log
             /\ StateChanges(action_log') =
                    StateChanges(action_log)
                        \o (IF state' # state THEN <<state'>> ELSE <<>>)

\* C29: within one analyze_policy, compare_scenarios or
\* get_policy_recommendations call the state only moves forward in the order
\* ANALYZING_REQUEST, RUNNING_SIMULATION, GENERATING_EXPLANATION, COMPLETE
\* (ERROR after any state, GENERATING_EXPLANATION skipped without explain);
\* the log is emptied at the start of the call, every state change is
\* appended to it in order, and actions_taken holds only that call's entries.
C29_StateMovesForwardAndLogIsOfTheCall == [](LogOfOneCall) /\ [][StagedStep]_vars

\* analyze_policy or compare_scenarios with explain, or
\* get_policy_recommendations, has returned in COMPLETE after all four
\* stages.
C29_Witness ==
    /\ AgentReturned
    /\ agCall.op \in StagedOperations
    /\ StateChanges(response.actions_taken) =
           <<"analyzing_request", "running_simulation", "generating_explanation", "complete">>

\* What get_context_params returns for a context, key by key: the value of
\* the context for a key of DEFAULT_PARAMS the context names, the default
\* otherwise.
ValueFor(context_name, k) ==
    IF context_name \in DOMAIN REGIONAL_CONTEXTS /\ k \in DOMAIN REGIONAL_CONTEXTS[context_name]
    THEN REGIONAL_CONTEXTS[context_name][k]
    ELSE DEFAULT_PARAMS[k]

\* C30: after any sequence of get_context_params calls and agent
\* constructions DEFAULT_PARAMS is unchanged; each returned map has every
\* key of DEFAULT_PARAMS, with the default value except for the keys its own
\* context overrides, so no context's overrides show in the map of another.
C30_DefaultParamsUnchangedByContexts ==
    /\ objs[1] = DEFAULT_PARAMS
    /\ \A i \in 1..Len(returned) :
           /\ returned[i].ref # 1
           /\ \A k \in DOMAIN DEFAULT_PARAMS :
                  /\ k \in DOMAIN objs[returned[i].ref]
                  /\ objs[returned[i].ref][k] = ValueFor(returned[i].context, k)
    /\ \A i \in 1..Len(agents) :
           \A k \in DOMAIN DEFAULT_PARAMS :
               objs[agents[i].params][k] = ValueFor(agents[i].context, k)

\* The maps of malaysia, of an agent on thailand and of a context that does
\* not exist have been returned, in this order.
C30_Witness ==
    /\ Len(returned) = 3
    /\ returned[1].context = "malaysia"
    /\ returned[2].context = "thailand"
    /\ returned[3].context = "atlantis"
    /\ Len(agents) = 1
    /\ agents[1].context = "thailand"

====
